---- MODULE Spec2Model ----
(***************************************************************************)
(* A model of the named shared-memory layer of elkodon:                    *)
(*   - the Windows port -> UDS-name directory                              *)
(*     (elkodon_pal/posix/src/windows/win32_udp_port_to_uds_name.rs)       *)
(*   - the SharedMemory builder / handle life cycle                        *)
(*     (elkodon_bb/posix/src/shared_memory.rs)                             *)
(***************************************************************************)
EXTENDS Integers, Sequences, FiniteSets, TLC

(***************************************************************************)
(* Bounds of the directory model.                                          *)
(***************************************************************************)
\* length of a name buffer (the source's MAX_UDS_NAME_LEN is 108)
NameBufLen == 2
\* number of slots of uds_names (the source's array holds 65535)
NumSlots == 2
\* processes that use the directory
NumDirProcs == 2
\* set/reset calls that may complete on one slot
MaxSets == 2

(***************************************************************************)
(* init_check values: a u64 of the mapping.  A fresh file mapping is       *)
(* zero-filled.  The values are kept symbolic (they do not fit TLC's       *)
(* integers).                                                              *)
(***************************************************************************)
ZERO_PAGE == "0x0"
INITIALIZATION_IN_PROGRESS == "0xbebebebebebebebe"
IS_INITIALIZED == "0xaffedeadbeef"

DirProcs == 1 .. NumDirProcs
Slots == 0 .. (NumSlots - 1)
BufIdx == 1 .. NameBufLen
\* the non-zero bytes names are built from; set and get copy bytes without
\* looking at them, so one value besides 0 tells every buffer state apart
NameBytes == {1}

\* [0u8; MAX_UDS_NAME_LEN]
ZeroBuf == [i \in BufIdx |-> 0]

\* the names a caller passes to set: byte strings without NUL, at most
\* NameBufLen long (a longer one panics in copy_from_slice)
SetNames == UNION {[1 .. n -> NameBytes] : n \in 0 .. NameBufLen}

\* the argument of set in PortToUds::reset: &[0; MAX_UDS_NAME_LEN]
ResetName == [i \in BufIdx |-> 0]

\* a name as it stands in a buffer after set: the name, then zeros
Padded(name) == [i \in BufIdx |-> IF i <= Len(name) THEN name[i] ELSE 0]

\* the memory of an Entry in a fresh (zero-filled) mapping
ZeroEntry == [aba_counter |-> 0, value |-> [b \in {0, 1} |-> ZeroBuf]]

\* Entry::initialize
EntryInitialized == [aba_counter |-> 1, value |-> [b \in {0, 1} |-> ZeroBuf]]

\* a set that writes the buffer get reads
SetBufferIndexSame(current) == (current - 1) % 2

\* the buffer Entry::set writes: value[(current % 2)]
SetBufferIndex(current) == current % 2

\* a get that reads the buffer the next set writes
GetBufferIndexOffByOne(current) == current % 2

\* the buffer Entry::get reads: value[((current - 1) % 2)]; on a counter of
\* 0 the u64 subtraction wraps to 2^64 - 1, which is odd
GetBufferIndex(current) == (current - 1) % 2

(***************************************************************************)
(* Bounds of the shared-memory model.                                      *)
(***************************************************************************)
\* callers (threads or processes); each holds at most one SharedMemory
NumCallers == 2
\* shared-memory names
NumNames == 2
\* largest segment size, in bytes
MaxSize == 2

Callers == 1 .. NumCallers
ShmNames == 1 .. NumNames
\* the names the builders of one process under study are given
BuilderNames == {1}
Sizes == 0 .. MaxSize
\* the addresses mmap may return (the hint is always null: the OS chooses)
Addresses == {"A", "B"}
NoAddress == "none"
\* shared-memory objects of the OS: every name and every handle refers to
\* at most one, and a caller inside a builder call holds no handle
NoSeg == 0
SegIds == 1 .. (NumCallers + NumNames)

\* an object shm_open(O_CREAT | O_EXCL) has just created: empty
EmptySegment == [size |-> 0, data |-> <<>>]

\* ftruncate(fd, size): new bytes read as zero
Truncated(seg, size) ==
    [size |-> size,
     data |-> [i \in 1 .. size |-> IF i <= seg.size THEN seg.data[i] ELSE 0]]

\* posix::memset(base, 0, size) through a mapping of the object
Zeroed(seg, size) ==
    [seg EXCEPT !.data = [i \in 1 .. seg.size |-> IF i <= size THEN 0 ELSE seg.data[i]]]

\* shm.as_mut_slice()[0] = 0xFF (the byte is modelled as 1)
Written(seg) == [seg EXCEPT !.data = [i \in 1 .. seg.size |-> IF i = 1 THEN 1 ELSE seg.data[i]]]

\* SharedMemoryBuilder::new: the defaults of a builder
DefaultConfig(name) ==
    [name |-> name, size |-> 0, is_memory_locked |-> FALSE, has_ownership |-> TRUE,
     creation_mode |-> "None", zero_memory |-> TRUE, enforce_base_address |-> NoAddress]

\* what a caller can set before open_existing / try_open_existing
OpenConfigs ==
    {[DefaultConfig(n) EXCEPT !.is_memory_locked = l, !.enforce_base_address = e] :
        n \in BuilderNames, l \in BOOLEAN, e \in Addresses \cup {NoAddress}}

\* what a caller can set before create
CreateConfigs ==
    [name : BuilderNames, size : Sizes, is_memory_locked : BOOLEAN, has_ownership : BOOLEAN,
     creation_mode : {"CreateExclusive", "PurgeAndCreate", "OpenOrCreate"},
     zero_memory : BOOLEAN, enforce_base_address : Addresses \cup {NoAddress}]

\* what the OS decides during one call: the address mmap returns and the
\* resource error it reports, if any (ftruncate failing, MemoryLock::new
\* failing, a signal raised while zeroing)
Environments == [addr : Addresses, fault : {"none", "truncate", "mlock", "signal"}]

VARIABLES
    mapping_exists,  \* the named file mapping "/port_to_uds_name_map" exists
    handle_count,    \* open handles of the mapping (it dies with the last)
    init_check,      \* PortToUdsNameMap.init_check
    uds_names,       \* PortToUdsNameMap.uds_names
    dpc,             \* position of each process in new/initialize/set/get
    dloc,            \* locals of the call a process runs
    completed,       \* per slot: the padded names of the set calls that returned
    shm_names,       \* the OS's shared-memory names: name -> object or NoSeg
    segments,        \* the OS's shared-memory objects: size and contents
    handles,         \* the SharedMemory each caller holds: <<>> or <<handle>>
    last_call,       \* the builder call that ran last and its result
    scope_guard,     \* the ScopeGuard under study, its value and its callbacks
    math_call,       \* a call of a function of math.rs: arguments and result
    create_calls,    \* per caller: the create call it is in the middle of
    shm_walk         \* a call of shm_list of FreeBSD: its buffer and its walk

dirVars == <<mapping_exists, handle_count, init_check, uds_names, dpc, dloc, completed>>

shmVars == <<shm_names, segments, handles, last_call>>

utilVars == <<scope_guard, math_call, create_calls, shm_walk>>

vars == <<dirVars, shmVars, utilVars>>

\* Ok(()) of an on_init callback and of create
GuardOk == [ok |-> TRUE, err |-> 0]

NoGuard == [pc |-> "none", value |-> 0, on_init |-> GuardOk, init_calls |-> 0,
            drop_calls |-> 0, init_saw |-> 0, drop_saw |-> 0, result |-> GuardOk]

NoMathCall == [fn |-> "none", value |-> 0, alignment |-> 0, pc |-> "none", result |-> 0]

\* no call of shm_list
NoWalk == [pc |-> "none", len |-> 0, allocated |-> 0, records |-> <<>>, written |-> 0,
           temp |-> 0, read_end |-> 0, result |-> <<>>]

\* no scope guard and no function of math.rs in use
UtilUnused ==
    /\ scope_guard = NoGuard
    /\ math_call = NoMathCall
    /\ create_calls = <<>>
    /\ shm_walk = NoWalk

NoCall == [op |-> "none", res |-> "none", existed |-> FALSE]

\* no shared memory in use (the directory is looked at on its own)
ShmUnused ==
    /\ shm_names = [n \in ShmNames |-> NoSeg]
    /\ segments = [s \in SegIds |-> EmptySegment]
    /\ handles = [c \in Callers |-> <<>>]
    /\ last_call = NoCall

NoLocals == [port |-> 0, name |-> <<>>, current |-> 0, i |-> 0,
             result |-> ZeroBuf, created |-> FALSE]

----
(***************************************************************************)
(* Entry::set, one step per atomic access / byte write.                    *)
(***************************************************************************)
\* let current = self.aba_counter.load(Acquire)
SetLoad(p, port, name) ==
    /\ dpc[p] = "idle"
    /\ Len(completed[port]) < MaxSets
    /\ dpc' = [dpc EXCEPT ![p] = "set_zero"]
    /\ dloc' = [dloc EXCEPT ![p] = [NoLocals EXCEPT !.port = port, !.name = name,
                                       !.current = uds_names[port].aba_counter,
                                       !.i = 1]]
    /\ UNCHANGED <<mapping_exists, handle_count, init_check, uds_names, completed, shmVars, utilVars>>

\* value[current % 2] = [0u8; MAX_UDS_NAME_LEN], byte by byte
SetZero(p) ==
    /\ dpc[p] = "set_zero"
    /\ LET l == dloc[p]
           b == SetBufferIndex(l.current)
       IN  /\ uds_names' = [uds_names EXCEPT ![l.port].value[b][l.i] = 0]
           /\ IF l.i < NameBufLen
              THEN /\ dloc' = [dloc EXCEPT ![p].i = l.i + 1]
                   /\ dpc' = dpc
              ELSE /\ dloc' = [dloc EXCEPT ![p].i = 1]
                   /\ dpc' = [dpc EXCEPT ![p] =
                                IF Len(l.name) = 0 THEN "set_inc" ELSE "set_copy"]
    /\ UNCHANGED <<mapping_exists, handle_count, init_check, completed, shmVars, utilVars>>

\* value[current % 2][..value.len()].copy_from_slice(value), byte by byte
SetCopy(p) ==
    /\ dpc[p] = "set_copy"
    /\ LET l == dloc[p]
           b == SetBufferIndex(l.current)
       IN  /\ uds_names' = [uds_names EXCEPT ![l.port].value[b][l.i] = l.name[l.i]]
           /\ IF l.i < Len(l.name)
              THEN /\ dloc' = [dloc EXCEPT ![p].i = l.i + 1]
                   /\ dpc' = dpc
              ELSE /\ dloc' = [dloc EXCEPT ![p].i = 0]
                   /\ dpc' = [dpc EXCEPT ![p] = "set_inc"]
    /\ UNCHANGED <<mapping_exists, handle_count, init_check, completed, shmVars, utilVars>>

\* self.aba_counter.fetch_add(1, Release); set returns
SetInc(p) ==
    /\ dpc[p] = "set_inc"
    /\ LET l == dloc[p]
       IN  /\ uds_names' = [uds_names EXCEPT ![l.port].aba_counter = @ + 1]
           /\ completed' = [completed EXCEPT ![l.port] = Append(@, Padded(l.name))]
    /\ dpc' = [dpc EXCEPT ![p] = "idle"]
    /\ dloc' = [dloc EXCEPT ![p] = NoLocals]
    /\ UNCHANGED <<mapping_exists, handle_count, init_check, shmVars, utilVars>>

(***************************************************************************)
(* Entry::get.  current is loaded once, before the loop.                   *)
(***************************************************************************)
\* let current = self.aba_counter.load(Acquire)
GetLoad(p, port) ==
    /\ dpc[p] = "idle"
    /\ dpc' = [dpc EXCEPT ![p] = "get_copy"]
    /\ dloc' = [dloc EXCEPT ![p] = [NoLocals EXCEPT !.port = port,
                                       !.current = uds_names[port].aba_counter,
                                       !.i = 1]]
    /\ UNCHANGED <<mapping_exists, handle_count, init_check, uds_names, completed, shmVars, utilVars>>

\* result = *self.value[(current - 1) % 2].get(), byte by byte.  With
\* current = 0 (a slot of a mapping nobody initialized yet) current - 1
\* overflows: a build with overflow checks panics, one without wraps.
GetCopy(p) ==
    /\ dpc[p] = "get_copy"
    /\ LET l == dloc[p]
           b == GetBufferIndex(l.current)
       IN  \E outcome \in (IF l.current = 0 THEN {"wraps", "panics"} ELSE {"wraps"}) :
             IF outcome = "panics"
             THEN /\ dpc' = [dpc EXCEPT ![p] = "panicked"]
                  /\ dloc' = [dloc EXCEPT ![p] = NoLocals]
             ELSE /\ dloc' = [dloc EXCEPT
                                ![p].result[l.i] = uds_names[l.port].value[b][l.i],
                                ![p].i = IF l.i < NameBufLen THEN l.i + 1 ELSE 0]
                  /\ dpc' = [dpc EXCEPT ![p] = IF l.i < NameBufLen THEN "get_copy"
                                               ELSE "get_check"]
    /\ UNCHANGED <<mapping_exists, handle_count, init_check, uds_names, completed, shmVars, utilVars>>

\* if current == self.aba_counter.load(Acquire) { break; }  -- else the loop
\* body runs again, with the same current
GetCheck(p) ==
    /\ dpc[p] = "get_check"
    /\ LET l == dloc[p]
       IN  IF l.current = uds_names[l.port].aba_counter
           THEN /\ dpc' = [dpc EXCEPT ![p] = "get_done"]
                /\ dloc' = dloc
           ELSE /\ dpc' = [dpc EXCEPT ![p] = "get_copy"]
                /\ dloc' = [dloc EXCEPT ![p].i = 1]
    /\ UNCHANGED <<mapping_exists, handle_count, init_check, uds_names, completed, shmVars, utilVars>>

\* get returns result to its caller
GetReturn(p) ==
    /\ dpc[p] = "get_done"
    /\ dpc' = [dpc EXCEPT ![p] = "idle"]
    /\ dloc' = [dloc EXCEPT ![p] = NoLocals]
    /\ UNCHANGED <<mapping_exists, handle_count, init_check, uds_names, completed, shmVars, utilVars>>

----
(***************************************************************************)
(* PortToUds::new, PortToUdsNameMap::initialize and Drop for PortToUds.    *)
(***************************************************************************)
\* the memory of a mapping CreateFileMappingA has just created
FreshMapping ==
    /\ init_check' = ZERO_PAGE
    /\ uds_names' = [s \in Slots |-> ZeroEntry]
    /\ completed' = [s \in Slots |-> <<>>]

\* CloseHandle: the mapping object dies with its last handle
CloseHandle ==
    /\ handle_count' = handle_count - 1
    /\ mapping_exists' = (handle_count > 1)

\* CreateFileMappingA succeeded; has_created_shm = (GetLastError() #
\* ERROR_ALREADY_EXISTS).  (A failing call returns None and changes nothing.)
NewCreateFileMapping(p) ==
    /\ dpc[p] = "start"
    /\ dpc' = [dpc EXCEPT ![p] = "new_map"]
    /\ dloc' = [dloc EXCEPT ![p] = [NoLocals EXCEPT !.created = ~mapping_exists]]
    /\ mapping_exists' = TRUE
    /\ handle_count' = handle_count + 1
    /\ IF mapping_exists
       THEN UNCHANGED <<init_check, uds_names, completed>>
       ELSE FreshMapping
    /\ UNCHANGED <<shmVars, utilVars>>

\* MapViewOfFile or VirtualAlloc failed: the handle is closed, new returns None
NewMapFails(p) ==
    /\ dpc[p] = "new_map"
    /\ dpc' = [dpc EXCEPT ![p] = "start"]
    /\ dloc' = [dloc EXCEPT ![p] = NoLocals]
    /\ CloseHandle
    /\ UNCHANGED <<init_check, uds_names, completed, shmVars, utilVars>>

\* an attach that initializes whoever created the mapping
RunsInitializeAlways(created) == TRUE

\* if has_created_shm { .. initialize() } (line 164)
RunsInitialize(created) == created

\* MapViewOfFile and VirtualAlloc succeeded: if has_created_shm { initialize() };
\* otherwise new returns Some(Self) at once
NewMapped(p) ==
    /\ dpc[p] = "new_map"
    /\ dpc' = [dpc EXCEPT ![p] = IF RunsInitialize(dloc[p].created) THEN "init_load"
                                 ELSE "idle"]
    /\ dloc' = [dloc EXCEPT ![p] = NoLocals]
    /\ UNCHANGED <<mapping_exists, handle_count, init_check, uds_names, completed, shmVars, utilVars>>

\* let current = self.init_check.load(Relaxed)
InitLoad(p) ==
    /\ dpc[p] = "init_load"
    /\ dpc' = [dpc EXCEPT ![p] = "init_cas"]
    /\ dloc' = [dloc EXCEPT ![p].name = init_check]
    /\ UNCHANGED <<mapping_exists, handle_count, init_check, uds_names, completed, shmVars, utilVars>>

\* the value compare_exchange expects in init_check: the one just loaded
CasExpected(loaded) == loaded

\* self.init_check.compare_exchange(current, INITIALIZATION_IN_PROGRESS, ..)
InitCas(p) ==
    /\ dpc[p] = "init_cas"
    /\ IF init_check = CasExpected(dloc[p].name)
       THEN /\ init_check' = INITIALIZATION_IN_PROGRESS
            /\ dpc' = [dpc EXCEPT ![p] = "init_entries"]
            /\ dloc' = [dloc EXCEPT ![p] = [NoLocals EXCEPT !.i = 0]]
       ELSE /\ init_check' = init_check
            /\ dpc' = [dpc EXCEPT ![p] = "init_spin"]
            /\ dloc' = [dloc EXCEPT ![p] = NoLocals]
    /\ UNCHANGED <<mapping_exists, handle_count, uds_names, completed, shmVars, utilVars>>

\* self.uds_names[i].initialize(), for i in 0..self.uds_names.len()
InitEntries(p) ==
    /\ dpc[p] = "init_entries"
    /\ LET i == dloc[p].i
       IN  /\ uds_names' = [uds_names EXCEPT ![i] = EntryInitialized]
           /\ dloc' = [dloc EXCEPT ![p].i = i + 1]
           /\ dpc' = [dpc EXCEPT ![p] = IF i + 1 < NumSlots THEN "init_entries"
                                        ELSE "init_store"]
    /\ UNCHANGED <<mapping_exists, handle_count, init_check, completed, shmVars, utilVars>>

\* self.init_check.store(IS_INITIALIZED, Relaxed); return
InitStore(p) ==
    /\ dpc[p] = "init_store"
    /\ init_check' = IS_INITIALIZED
    /\ dpc' = [dpc EXCEPT ![p] = "idle"]
    /\ dloc' = [dloc EXCEPT ![p] = NoLocals]
    /\ UNCHANGED <<mapping_exists, handle_count, uds_names, completed, shmVars, utilVars>>

\* Err(_) => while self.init_check.load(Relaxed) != IS_INITIALIZED {}
\* (a load of another value leaves the state as it is)
InitSpin(p) ==
    /\ dpc[p] = "init_spin"
    /\ init_check = IS_INITIALIZED
    /\ dpc' = [dpc EXCEPT ![p] = "idle"]
    /\ UNCHANGED <<mapping_exists, handle_count, init_check, uds_names, dloc, completed, shmVars, utilVars>>

\* Drop for PortToUds: UnmapViewOfFile, CloseHandle
DropPortToUds(p) ==
    /\ dpc[p] = "idle"
    /\ dpc' = [dpc EXCEPT ![p] = "start"]
    /\ CloseHandle
    /\ UNCHANGED <<init_check, uds_names, dloc, completed, shmVars, utilVars>>

\* the positions at which a process holds a PortToUds that new returned
HoldsDirectory(p) ==
    dpc[p] \in {"idle", "set_zero", "set_copy", "set_inc",
                "get_copy", "get_check", "get_done"}

\* the positions inside the per-entry initialization of initialize
Initializing(p) == dpc[p] \in {"init_entries", "init_store"}

----
(***************************************************************************)
(* SharedMemory: the builder calls, as functions of the OS state, the      *)
(* configuration and what the OS decides during the call.                  *)
(***************************************************************************)
\* elkodon_pal_posix::posix::POSIX_SUPPORT_ADVANCED_SIGNAL_HANDLING (Linux)
POSIX_SUPPORT_ADVANCED_SIGNAL_HANDLING == TRUE

\* the objects some name or some descriptor in `held` refers to
Referenced(names, held) == {names[n] : n \in ShmNames} \cup held

\* the object shm_open(O_CREAT | O_EXCL) hands out: one nothing refers to
FreshSegment(names, held) ==
    CHOOSE s \in SegIds \ Referenced(names, held) :
        \A t \in SegIds \ Referenced(names, held) : s <= t

\* the OS frees an object once no name and no descriptor refers to it
Collected(names, segs, held) ==
    [s \in SegIds |-> IF s \in Referenced(names, held) THEN segs[s] ELSE EmptySegment]

\* an unlink that leaves the name in place
UnlinkSkipped(names, name) == names

\* posix::shm_unlink(name): the name is gone (ENOENT leaves it gone)
Unlinked(names, name) == [names EXCEPT ![name] = NoSeg]

\* has_ownership of a SharedMemory that open builds (line 197)
OpenedHandleOwnership(cfg) == FALSE

\* has_ownership left as the builder was configured
ConfiguredOwnership(cfg) == cfg.has_ownership

\* self.config.has_ownership after shm_open succeeded in OpenOrCreate (line 274)
OpenOrCreateOpenedOwnership(cfg) == FALSE

\* a size check that lets every size pass
SizeFitsAlways(actual, configured) == TRUE

\* actual_shm_size as usize != self.config.size (lines 310, 324), negated
SizeFits(actual, configured) == actual = configured

\* an open that keeps the size the builder holds
OpenedSizeConfigured(cfg, seg) == cfg.size

\* self.size = actual_shm_size of SharedMemoryBuilder::open (line 181)
OpenedSize(cfg, seg) == seg.size

\* a check that accepts every address
EnforcementSkipped(cfg, base) == TRUE

\* the enforced-base-address check (lines 186-187, 290-291), negated
MapsAtEnforcedAddress(cfg, base) ==
    \/ cfg.enforce_base_address = NoAddress
    \/ cfg.enforce_base_address = base

\* an mmap that maps a length of zero
MmapNeverFails(size) == FALSE

\* posix::mmap(null, config.size, ..) returns MAP_FAILED with EINVAL
\* (other errno values are not modelled)
MmapFails(size) == size = 0

\* a purge that leaves the name in place
PurgeSkipped(names, name) == names

\* shm_unlink(name, QuietWhenNotExisting) of PurgeAndCreate (line 266)
Purged(names, name) == Unlinked(names, name)

\* a drop that unlinks whatever the flag says
DropUnlinksAlways(has_ownership) == TRUE

\* whether Drop for SharedMemory calls shm_unlink (line 377)
DropUnlinks(has_ownership) == has_ownership

\* a drop whose unlink takes every name with it
DropNamesUnlinkingAll(names, name, has_ownership) ==
    IF has_ownership THEN [n \in ShmNames |-> NoSeg] ELSE names

\* the names after Drop for SharedMemory ran on a handle of `name`
DropNames(names, name, has_ownership) ==
    IF DropUnlinks(has_ownership) THEN Unlinked(names, name) ELSE names

\* what shm_unlink(name, PrintErrorWhenNotExisting) returns to Drop for
\* SharedMemory, which only logs it; "none" when the handle does not own
DropUnlinkResult(names, h) ==
    IF ~DropUnlinks(h.has_ownership) THEN "none"
    ELSE IF names[h.name] = NoSeg THEN "DoesNotExist" ELSE "Ok"

\* the steps of Drop for SharedMemory: munmap, then shm_unlink if owning
DropSteps(has_ownership) ==
    <<"munmap">> \o (IF DropUnlinks(has_ownership) THEN <<"shm_unlink">> ELSE <<>>)

\* the state of a builder call in progress
CallContext(cfg, names, segs, held) ==
    [pc |-> "begin", cfg |-> cfg, names |-> names, segs |-> segs, held |-> held,
     fd |-> NoSeg, shm_created |-> FALSE, base_address |-> NoAddress,
     memory_lock |-> FALSE, res |-> "none", leaked |-> 0, logged |-> FALSE,
     steps |-> <<>>]

\* a call returns Err(res) before a SharedMemory was built: the descriptor
\* is closed, a mapping that exists stays mapped
FailEarly(c, res, leaked) ==
    [c EXCEPT !.pc = "done", !.res = res, !.leaked = leaked]

\* a call returns Err(res) after `shm` was built: shm is dropped
FailDropping(c, res) ==
    [c EXCEPT !.pc = "done", !.res = res,
              !.names = DropNames(c.names, c.cfg.name, c.cfg.has_ownership),
              !.steps = @ \o DropSteps(c.cfg.has_ownership)]

\* shm_open with O_CREAT but without O_EXCL: an existing object is opened
ShmCreateNotExclusive(c) ==
    LET s == IF c.names[c.cfg.name] # NoSeg THEN c.names[c.cfg.name]
             ELSE FreshSegment(c.names, c.held)
    IN  [c EXCEPT !.pc = "mmap", !.fd = s, !.shm_created = TRUE,
                  !.names[c.cfg.name] = s, !.steps = Append(@, "shm_create")]

\* SharedMemory::shm_create: shm_open with O_CREAT | O_EXCL
ShmCreate(c) ==
    IF c.names[c.cfg.name] # NoSeg
    THEN FailEarly([c EXCEPT !.steps = Append(@, "shm_create"), !.logged = TRUE],
                   "AlreadyExist", 0)
    ELSE LET s == FreshSegment(c.names, c.held)
         IN  [c EXCEPT !.pc = "mmap", !.fd = s, !.shm_created = TRUE,
                       !.names[c.cfg.name] = s, !.segs[s] = EmptySegment,
                       !.steps = Append(@, "shm_create")]

\* a create that truncates whatever it has mapped
AfterMappingTruncate(shm_created) == "truncate"

\* where create goes on with `shm` built: `if !shm_created` compares the
\* size and returns (lines 306-317), a created object is truncated (319)
AfterMapping(shm_created) == IF shm_created THEN "truncate" ELSE "stat_opened"

\* a create that goes on with the zeroing once the size is verified
AfterSizeVerificationZero == "zero"

\* where create goes on once the size of the created object is verified:
\* the memory lock (line 329)
AfterSizeVerification == "mlock"

\* one step of SharedMemoryCreationBuilder::create
CreateStep(c, env) ==
    CASE c.pc = "begin" ->
            [c EXCEPT !.pc = CASE c.cfg.creation_mode = "CreateExclusive" -> "shm_create"
                              [] c.cfg.creation_mode = "PurgeAndCreate" -> "purge"
                              [] c.cfg.creation_mode = "OpenOrCreate" -> "shm_open"]
      [] c.pc = "purge" ->
            \* shm_unlink(name, QuietWhenNotExisting): ENOENT is Ok
            [c EXCEPT !.pc = "shm_create", !.names = Purged(c.names, c.cfg.name),
                      !.steps = Append(@, "shm_unlink")]
      [] c.pc = "shm_open" ->
            IF c.names[c.cfg.name] # NoSeg
            THEN [c EXCEPT !.pc = "mmap", !.fd = c.names[c.cfg.name],
                           !.shm_created = FALSE,
                           !.cfg.has_ownership = OpenOrCreateOpenedOwnership(c.cfg),
                           !.steps = Append(@, "shm_open")]
            ELSE [c EXCEPT !.pc = "shm_create", !.steps = Append(@, "shm_open")]
      [] c.pc = "shm_create" -> ShmCreate(c)
      [] c.pc = "mmap" ->
            \* mmap(null, config.size, ..): EINVAL for a length of zero
            IF MmapFails(c.cfg.size)
            THEN FailEarly([c EXCEPT !.steps = Append(@, "mmap"), !.logged = TRUE],
                           "UnsupportedSizeOfZero", 0)
            ELSE [c EXCEPT !.pc = "enforce", !.base_address = env.addr,
                           !.steps = Append(@, "mmap")]
      [] c.pc = "enforce" ->
            IF ~MapsAtEnforcedAddress(c.cfg, c.base_address)
            THEN FailEarly([c EXCEPT !.logged = TRUE],
                           "UnableToMapAtEnforcedBaseAddress", 1)
            ELSE [c EXCEPT !.pc = AfterMapping(c.shm_created)]
      [] c.pc = "stat_opened" ->
            IF ~SizeFits(c.segs[c.fd].size, c.cfg.size)
            THEN FailDropping([c EXCEPT !.steps = Append(@, "fstat"), !.logged = TRUE],
                              "SizeDoesNotFit")
            ELSE [c EXCEPT !.pc = "done", !.res = "Ok", !.steps = Append(@, "fstat")]
      [] c.pc = "truncate" ->
            IF env.fault = "truncate"
            THEN FailDropping([c EXCEPT !.steps = Append(@, "ftruncate"), !.logged = TRUE],
                              "FileTruncateError")
            ELSE [c EXCEPT !.pc = "stat_created",
                           !.segs[c.fd] = Truncated(@, c.cfg.size),
                           !.steps = Append(@, "ftruncate")]
      [] c.pc = "stat_created" ->
            IF ~SizeFits(c.segs[c.fd].size, c.cfg.size)
            THEN FailDropping([c EXCEPT !.steps = Append(@, "fstat"), !.logged = TRUE],
                              "SizeDoesNotFit")
            ELSE [c EXCEPT !.pc = AfterSizeVerification, !.steps = Append(@, "fstat")]
      [] c.pc = "mlock" ->
            IF ~c.cfg.is_memory_locked
            THEN [c EXCEPT !.pc = "zero"]
            ELSE IF env.fault = "mlock"
                 THEN FailDropping([c EXCEPT !.steps = Append(@, "mlock"),
                                             !.logged = TRUE],
                                   "MemoryLockCreationError")
                 ELSE [c EXCEPT !.pc = "zero", !.memory_lock = TRUE,
                                !.steps = Append(@, "mlock")]
      [] c.pc = "zero" ->
            IF ~c.cfg.zero_memory
            THEN [c EXCEPT !.pc = "done", !.res = "Ok"]
            ELSE IF POSIX_SUPPORT_ADVANCED_SIGNAL_HANDLING /\ env.fault = "signal"
                 THEN FailDropping([c EXCEPT !.steps = Append(@, "memset"),
                                             !.logged = TRUE],
                                   "InsufficientMemory")
                 ELSE [c EXCEPT !.pc = "done", !.res = "Ok",
                                !.segs[c.fd] = Zeroed(@, c.cfg.size),
                                !.steps = Append(@, "memset")]

RECURSIVE RunCreate(_, _)
RunCreate(c, env) == IF c.pc = "done" THEN c ELSE RunCreate(CreateStep(c, env), env)

\* the positions create passes through from context c to its return
RECURSIVE Positions(_, _)
Positions(c, env) ==
    IF c.pc = "done" THEN <<>> ELSE <<c.pc>> \o Positions(CreateStep(c, env), env)

\* SharedMemoryCreationBuilder::create, from call to return
CreateOutcome(cfg, names, segs, held, env) ==
    RunCreate(CallContext(cfg, names, segs, held), env)

\* an error mapping that depends on the logging mode
OpenErrorDependingOnMode(quiet) == IF quiet THEN "DoesNotExist" ELSE "UnknownError"

\* handle_errno! of SharedMemory::shm_open for ENOENT: quiet_when only
\* suppresses the log, the error is DoesNotExist in both modes
OpenErrorOfMissingName(quiet) == "DoesNotExist"

\* SharedMemoryBuilder::open, from call to return
OpenOutcome(cfg, quiet, names, segs, held, env) ==
    LET c == CallContext(cfg, names, segs, held)
        fd == names[cfg.name]
    IN  IF fd = NoSeg
        THEN FailEarly([c EXCEPT !.steps = <<"shm_open">>, !.logged = ~quiet],
                       OpenErrorOfMissingName(quiet), 0)
        ELSE LET o == [c EXCEPT !.fd = fd, !.cfg.size = OpenedSize(cfg, segs[fd]),
                                !.steps = <<"shm_open", "fstat", "mmap">>]
             IN  IF MmapFails(o.cfg.size)
                 THEN FailEarly([o EXCEPT !.logged = TRUE], "UnsupportedSizeOfZero", 0)
                 ELSE IF ~MapsAtEnforcedAddress(cfg, env.addr)
                      THEN FailEarly([o EXCEPT !.base_address = env.addr,
                                               !.logged = TRUE],
                                     "UnableToMapAtEnforcedBaseAddress", 1)
                      ELSE [o EXCEPT !.pc = "done", !.res = "Ok",
                                     !.base_address = env.addr,
                                     !.cfg.has_ownership = OpenedHandleOwnership(cfg)]

\* the SharedMemory a call that ended Ok returns
HandleOf(c) ==
    [name |-> c.cfg.name, size |-> c.cfg.size, base_address |-> c.base_address,
     has_ownership |-> c.cfg.has_ownership, file_descriptor |-> c.fd,
     memory_lock |-> c.memory_lock, shm_created |-> c.shm_created]

\* the descriptors the handles of the callers other than p hold
HeldByOthers(p) == {handles[q][1].file_descriptor : q \in {r \in Callers \ {p} : handles[r] # <<>>}}

\* the descriptors all handles in hs hold
HeldBy(hs) == {hs[q][1].file_descriptor : q \in {r \in Callers : hs[r] # <<>>}}

\* a builder call of caller p ended in context c
Returned(p, op, name, c) ==
    LET hs == [handles EXCEPT ![p] = IF c.res = "Ok" THEN <<HandleOf(c)>> ELSE <<>>]
    IN  /\ handles' = hs
        /\ shm_names' = c.names
        /\ segments' = Collected(c.names, c.segs, HeldBy(hs))
        /\ last_call' = [op |-> op, res |-> c.res, existed |-> shm_names[name] # NoSeg]

\* SharedMemoryBuilder::new(name) ... .creation_mode(m) ... .create()
Create(p, cfgs, envs) ==
    /\ handles[p] = <<>>
    /\ \E cfg \in cfgs, env \in envs :
         Returned(p, cfg.creation_mode, cfg.name,
                  CreateOutcome(cfg, shm_names, segments, HeldByOthers(p), env))
    /\ UNCHANGED <<dirVars, utilVars>>

\* SharedMemoryBuilder::new(name) ... .open_existing(access_mode)
OpenExisting(p, cfgs, envs) ==
    /\ handles[p] = <<>>
    /\ \E cfg \in cfgs, env \in envs :
         Returned(p, "open_existing", cfg.name,
                  OpenOutcome(cfg, FALSE, shm_names, segments, HeldByOthers(p), env))
    /\ UNCHANGED <<dirVars, utilVars>>

\* SharedMemoryBuilder::new(name) ... .try_open_existing(access_mode)
TryOpenExisting(p, cfgs, envs) ==
    /\ handles[p] = <<>>
    /\ \E cfg \in cfgs, env \in envs :
         Returned(p, "try_open_existing", cfg.name,
                  OpenOutcome(cfg, TRUE, shm_names, segments, HeldByOthers(p), env))
    /\ UNCHANGED <<dirVars, utilVars>>

\* a release that flips the flag
ReleasedToggling(h) == [h EXCEPT !.has_ownership = ~@]

\* self.has_ownership = false (line 427)
Released(h) == [h EXCEPT !.has_ownership = FALSE]

\* self.has_ownership = true (line 433)
Acquired(h) == [h EXCEPT !.has_ownership = TRUE]

\* SharedMemory::acquire_ownership
AcquireOwnership(p) ==
    /\ handles[p] # <<>>
    /\ handles' = [handles EXCEPT ![p][1] = Acquired(@)]
    /\ last_call' = [op |-> "acquire_ownership", res |-> "none",
                     existed |-> shm_names[handles[p][1].name] # NoSeg]
    /\ UNCHANGED <<shm_names, segments, dirVars, utilVars>>

\* SharedMemory::release_ownership
ReleaseOwnership(p) ==
    /\ handles[p] # <<>>
    /\ handles' = [handles EXCEPT ![p][1] = Released(@)]
    /\ last_call' = [op |-> "release_ownership", res |-> "none",
                     existed |-> shm_names[handles[p][1].name] # NoSeg]
    /\ UNCHANGED <<shm_names, segments, dirVars, utilVars>>

\* shm.as_mut_slice()[0] = 0xFF
WriteByte(p) ==
    /\ handles[p] # <<>>
    /\ LET fd == handles[p][1].file_descriptor
       IN  /\ segments[fd].size > 0
           /\ segments' = [segments EXCEPT ![fd] = Written(@)]
    /\ last_call' = NoCall
    /\ UNCHANGED <<shm_names, handles, dirVars, utilVars>>

\* Drop for SharedMemory: munmap, then shm_unlink if has_ownership; the
\* descriptor is closed with the handle
DropHandle(p) ==
    /\ handles[p] # <<>>
    /\ LET h == handles[p][1]
           names == DropNames(shm_names, h.name, h.has_ownership)
           hs == [handles EXCEPT ![p] = <<>>]
       IN  /\ handles' = hs
           /\ shm_names' = names
           /\ segments' = Collected(names, segments, HeldBy(hs))
           /\ last_call' = [op |-> "drop", res |-> DropUnlinkResult(shm_names, h),
                            existed |-> shm_names[h.name] # NoSeg]
    /\ UNCHANGED <<dirVars, utilVars>>

\* SharedMemory::remove(name), from call to return: the result of
\* shm_unlink(name, PrintErrorWhenNotExisting) is handed to the caller
RemoveOutcome(names, name) ==
    [res |-> IF names[name] = NoSeg THEN "DoesNotExist" ELSE "Ok",
     names |-> Unlinked(names, name)]

\* SharedMemory::remove(name)
Remove(name) ==
    LET r == RemoveOutcome(shm_names, name)
    IN  /\ shm_names' = r.names
        /\ segments' = Collected(r.names, segments, HeldBy(handles))
        /\ last_call' = [op |-> "remove", res |-> r.res,
                         existed |-> shm_names[name] # NoSeg]
        /\ UNCHANGED <<handles, dirVars, utilVars>>

\* a probe that reports every name as existing
ProbeOpensAlways(names, name) == TRUE

\* the shm_open(name, O_RDONLY) of SharedMemory::does_exist returns a valid
\* descriptor (permissions are not modelled: every object can be read)
ProbeOpens(names, name) == names[name] # NoSeg

\* SharedMemory::does_exist(name), from call to return: the FileDescriptor
\* is a temporary of the expression and is closed before the call returns,
\* `fds` are the descriptors the call leaves open
DoesExistOutcome(names, name) ==
    [result |-> ProbeOpens(names, name), names |-> names, fds |-> {}]

\* SharedMemory::does_exist(name)
DoesExist(name) ==
    LET r == DoesExistOutcome(shm_names, name)
    IN  /\ shm_names' = r.names
        /\ segments' = Collected(r.names, segments, HeldBy(handles) \cup r.fds)
        /\ last_call' = [op |-> "does_exist",
                         res |-> IF r.result THEN "true" ELSE "false",
                         existed |-> shm_names[name] # NoSeg]
        /\ UNCHANGED <<handles, dirVars, utilVars>>

\* no directory in use (shared memory is looked at on its own)
DirUnused ==
    /\ mapping_exists = FALSE
    /\ handle_count = 0
    /\ init_check = ZERO_PAGE
    /\ uds_names = [s \in Slots |-> ZeroEntry]
    /\ dpc = [p \in DirProcs |-> "start"]
    /\ dloc = [p \in DirProcs |-> NoLocals]
    /\ completed = [s \in Slots |-> <<>>]

\* what every caller can do with a handle it holds, and remove
UseHandles(ps) ==
    \/ \E p \in ps :
          \/ AcquireOwnership(p)
          \/ ReleaseOwnership(p)
          \/ WriteByte(p)
          \/ DropHandle(p)
    \/ \E name \in ShmNames : Remove(name)

(***************************************************************************)
(* One caller, every configuration a builder accepts and every decision    *)
(* the OS can take during the call.                                        *)
(***************************************************************************)
Builder == 1

InitBuilder == ShmUnused /\ DirUnused /\ UtilUnused

NextBuilder ==
    \/ Create(Builder, CreateConfigs, Environments)
    \/ OpenExisting(Builder, OpenConfigs, Environments)
    \/ TryOpenExisting(Builder, OpenConfigs, Environments)
    \/ UseHandles({Builder})

SpecBuilder == InitBuilder /\ [][NextBuilder]_vars

(***************************************************************************)
(* Several callers with one handle each; builders without memory lock and  *)
(* enforced base address, calls without OS resource errors.                *)
(***************************************************************************)
PlainCreateConfigs ==
    {cfg \in CreateConfigs :
        ~cfg.is_memory_locked /\ cfg.enforce_base_address = NoAddress}

PlainOpenConfigs ==
    {cfg \in OpenConfigs :
        ~cfg.is_memory_locked /\ cfg.enforce_base_address = NoAddress}

PlainEnvironments == {[addr |-> "A", fault |-> "none"]}

Init == ShmUnused /\ DirUnused /\ UtilUnused

Next ==
    \/ \E p \in Callers :
          \/ Create(p, PlainCreateConfigs, PlainEnvironments)
          \/ OpenExisting(p, PlainOpenConfigs, PlainEnvironments)
          \/ TryOpenExisting(p, PlainOpenConfigs, PlainEnvironments)
    \/ UseHandles(Callers)

Spec == Init /\ [][Next]_vars

\* the d_name of the entries "." and ".." that readdir reports for every
\* directory, kept apart from the names 1 .. NumNames
DotEntry == 0
DotDotEntry == 0 - 1

\* posix::shm_list on Linux: the d_name of every entry readdir returns for
\* /dev/shm/, nothing skipped (the order of the entries is left out)
ShmList(names) == {DotEntry, DotDotEntry} \cup {n \in ShmNames : names[n] # NoSeg}

\* FileName::from_c_str(name) is Ok: the naming module only passes the
\* entries through, list filters none of them
FileNameFromCStrIsOk(entry) == TRUE

\* SharedMemory::list: the entries of shm_list that convert to a FileName
List(names) == {entry \in ShmList(names) : FileNameFromCStrIsOk(entry)}

(***************************************************************************)
(* Several callers and several names; builders that differ in name,        *)
(* has_ownership and creation mode, calls without OS resource errors.      *)
(***************************************************************************)
NamesCreateConfigs ==
    {[DefaultConfig(n) EXCEPT !.size = MaxSize, !.has_ownership = o, !.creation_mode = m] :
        n \in ShmNames, o \in BOOLEAN, m \in {"CreateExclusive", "PurgeAndCreate"}}

NamesOpenConfigs == {DefaultConfig(n) : n \in ShmNames}

NextNames ==
    \/ \E p \in Callers :
          \/ Create(p, NamesCreateConfigs, PlainEnvironments)
          \/ OpenExisting(p, NamesOpenConfigs, PlainEnvironments)
    \/ UseHandles(Callers)
    \/ \E name \in ShmNames : DoesExist(name)

SpecNames == Init /\ [][NextNames]_vars

(***************************************************************************)
(* Concurrent creates: every caller is in a create call with OpenOrCreate  *)
(* for the same absent name and the same size; the calls advance one step  *)
(* of create at a time, in any order, on the names and objects of the OS.  *)
(***************************************************************************)
RaceName == 1

\* the builders of the racing callers: same name and size, default
\* ownership, no memory lock, no enforced base address
RaceConfigs(size) ==
    {cfg \in PlainCreateConfigs :
        /\ cfg.name = RaceName
        /\ cfg.size = size
        /\ cfg.has_ownership
        /\ cfg.creation_mode = "OpenOrCreate"}

\* a call between two steps holds no view of the OS state
Parked(c) ==
    [c EXCEPT !.names = [n \in ShmNames |-> NoSeg],
              !.segs = [s \in SegIds |-> EmptySegment],
              !.held = {}]

\* the calls that have not returned
Running == {p \in Callers : create_calls[p].pc # "done"}

\* the descriptors the running calls other than p hold
DescriptorsOfOthers(p) ==
    {create_calls[q].fd : q \in {r \in Running \ {p} : create_calls[r].fd # NoSeg}}

\* caller p makes the next step of its create call
CreateStepOf(p) ==
    /\ p \in Running
    /\ \E env \in PlainEnvironments :
         LET others == DescriptorsOfOthers(p)
             c == CreateStep([create_calls[p] EXCEPT
                                 !.names = shm_names, !.segs = segments,
                                 !.held = HeldByOthers(p) \cup others], env)
             hs == IF c.pc = "done" /\ c.res = "Ok"
                   THEN [handles EXCEPT ![p] = <<HandleOf(c)>>]
                   ELSE handles
             own == IF c.pc # "done" /\ c.fd # NoSeg THEN {c.fd} ELSE {}
         IN  /\ create_calls' = [create_calls EXCEPT ![p] = Parked(c)]
             /\ shm_names' = c.names
             /\ handles' = hs
             /\ segments' = Collected(c.names, c.segs, HeldBy(hs) \cup others \cup own)
             /\ last_call' = IF c.pc = "done"
                             THEN [op |-> c.cfg.creation_mode, res |-> c.res,
                                   existed |-> shm_names[c.cfg.name] # NoSeg]
                             ELSE last_call
    /\ UNCHANGED <<dirVars, scope_guard, math_call, shm_walk>>

InitRace ==
    /\ ShmUnused
    /\ DirUnused
    /\ scope_guard = NoGuard
    /\ math_call = NoMathCall
    /\ shm_walk = NoWalk
    /\ \E size \in Sizes \ {0} :
          create_calls \in
             [Callers -> {Parked(CallContext(cfg, shm_names, segments, {})) :
                             cfg \in RaceConfigs(size)}]

NextRace == \E p \in Callers : CreateStepOf(p)

SpecRace == InitRace /\ [][NextRace]_vars

----
(***************************************************************************)
(* ScopeGuardBuilder / ScopeGuard: a value with an on_init and an on_drop  *)
(* callback. The callbacks record the value they are called with.          *)
(***************************************************************************)
MaxGuardValue == 6
NumGuardErrors == 2

\* the values the guard is built with and get_mut writes
GuardValues == 1 .. MaxGuardValue

\* what on_init returns: Ok(()) or Err(e)
GuardErrors == 1 .. NumGuardErrors
OnInitResults == {GuardOk} \cup {[ok |-> FALSE, err |-> e] : e \in GuardErrors}

\* a create that runs on_drop whatever on_init returned
RunsOnDropAlways(init_result) == TRUE

\* whether create hands out a guard, whose destruction runs on_drop
RunsOnDrop(init_result) == init_result.ok

\* ScopeGuardBuilder::new(v).on_init(..).on_drop(..)
GuardBuild ==
    /\ scope_guard.pc = "none"
    /\ \E v \in GuardValues, r \in OnInitResults :
          scope_guard' = [NoGuard EXCEPT !.pc = "built", !.value = v, !.on_init = r]
    /\ UNCHANGED <<dirVars, shmVars, math_call, create_calls, shm_walk>>

\* ScopeGuardBuilder::create: runs on_init(&mut v); Ok hands out the guard,
\* Err(e) is returned and the value is destroyed with the builder
GuardCreate ==
    /\ scope_guard.pc = "built"
    /\ LET g == [scope_guard EXCEPT !.init_calls = @ + 1, !.init_saw = scope_guard.value,
                                    !.result = scope_guard.on_init]
       IN  scope_guard' =
              IF RunsOnDrop(g.on_init) THEN [g EXCEPT !.pc = "guarding"]
              ELSE [g EXCEPT !.pc = "failed"]
    /\ UNCHANGED <<dirVars, shmVars, math_call, create_calls, shm_walk>>

\* *guard.get_mut() = v
GuardGetMut ==
    /\ scope_guard.pc = "guarding"
    /\ \E v \in GuardValues \ {scope_guard.value} :
          scope_guard' = [scope_guard EXCEPT !.value = v]
    /\ UNCHANGED <<dirVars, shmVars, math_call, create_calls, shm_walk>>

\* the guard, or after a failed create its Err, goes out of scope: the
\* destructor of a guard runs on_drop(&mut v)
GuardDrop ==
    /\ scope_guard.pc \in {"guarding", "failed"}
    /\ scope_guard' =
          IF RunsOnDrop(scope_guard.on_init)
          THEN [scope_guard EXCEPT !.pc = "dropped", !.drop_calls = @ + 1,
                                   !.drop_saw = scope_guard.value]
          ELSE [scope_guard EXCEPT !.pc = "dropped"]
    /\ UNCHANGED <<dirVars, shmVars, math_call, create_calls, shm_walk>>

InitGuard == ShmUnused /\ DirUnused /\ UtilUnused

NextGuard == GuardBuild \/ GuardCreate \/ GuardGetMut \/ GuardDrop

SpecGuard == InitGuard /\ [][NextGuard]_vars

----
(***************************************************************************)
(* math.rs: align and round_to_pow2 on machine words. usize and u64 have   *)
(* 64 bits; the model keeps the wrap-around at a width of WordBits bits.   *)
(***************************************************************************)
WordBits == 9
MaxAlignmentLog2 == 8

\* one more than usize::MAX / u64::MAX
WordLimit == 2 ^ WordBits

Words == 0 .. WordLimit - 1

\* arithmetic of a build without overflow checks
Wrap(n) == n % WordLimit

\* the powers of two the word holds as alignments (the claim's 1, 2, 4, ..,
\* 4096 at 64 bits) and some alignments that are not powers of two
PowerOfTwoAlignments == {2 ^ k : k \in 0 .. MaxAlignmentLog2}
OddAlignments == {3, 5, 7}
Alignments == PowerOfTwoAlignments \cup OddAlignments

\* value + alignment does not fit the word: a panic in a build with
\* overflow checks, a wrap-around in one without
AlignOverflows(value, alignment) ==
    value % alignment # 0 /\ value + alignment >= WordLimit

\* an align that rounds down
AlignDown(value, alignment) == value - (value % alignment)

\* math::align
align(value, alignment) ==
    IF value % alignment = 0
    THEN value
    ELSE Wrap(Wrap(value + alignment) - (value % alignment))

\* value >> k
Shr(value, k) == IF k >= WordBits THEN 0 ELSE value \div (2 ^ k)

\* a | b
RECURSIVE BitOr(_, _)
BitOr(a, b) ==
    IF a = 0 THEN b
    ELSE IF b = 0 THEN a
    ELSE (IF a % 2 = 1 \/ b % 2 = 1 THEN 1 ELSE 0) + 2 * BitOr(a \div 2, b \div 2)

\* value |= value >> 1; .. ; value |= value >> 32
Smeared(value) ==
    LET v1 == BitOr(value, Shr(value, 1))
        v2 == BitOr(v1, Shr(v1, 2))
        v4 == BitOr(v2, Shr(v2, 4))
        v8 == BitOr(v4, Shr(v4, 8))
        v16 == BitOr(v8, Shr(v8, 16))
    IN  BitOr(v16, Shr(v16, 32))

\* value -= 1 or value += 1 does not fit the word
RoundOverflows(value) == value = 0 \/ Smeared(value - 1) + 1 >= WordLimit

\* a rounding that leaves out value -= 1
RoundWithoutDecrement(value) == Wrap(Smeared(value) + 1)

\* math::round_to_pow2
round_to_pow2(value) == Wrap(Smeared(Wrap(value - 1)) + 1)

\* the call returns, or panics where a build with overflow checks does
MathOutcome(overflows, result) ==
    \E overflow_checks \in BOOLEAN :
        math_call' = IF overflow_checks /\ overflows
                     THEN [math_call EXCEPT !.pc = "panicked"]
                     ELSE [math_call EXCEPT !.pc = "returned", !.result = result]

\* align(value, alignment)
CallAlign ==
    /\ math_call.pc = "called"
    /\ math_call.fn = "align"
    /\ MathOutcome(AlignOverflows(math_call.value, math_call.alignment),
                   align(math_call.value, math_call.alignment))
    /\ UNCHANGED <<dirVars, shmVars, scope_guard, create_calls, shm_walk>>

\* round_to_pow2(value)
CallRoundToPow2 ==
    /\ math_call.pc = "called"
    /\ math_call.fn = "round_to_pow2"
    /\ MathOutcome(RoundOverflows(math_call.value), round_to_pow2(math_call.value))
    /\ UNCHANGED <<dirVars, shmVars, scope_guard, create_calls, shm_walk>>

\* the arguments of a call
MathCalls ==
    {[NoMathCall EXCEPT !.fn = "align", !.pc = "called", !.value = v, !.alignment = a] :
        v \in Words, a \in Alignments}
    \cup {[NoMathCall EXCEPT !.fn = "round_to_pow2", !.pc = "called", !.value = v] :
              v \in Words}

InitMath ==
    /\ ShmUnused
    /\ DirUnused
    /\ scope_guard = NoGuard
    /\ create_calls = <<>>
    /\ shm_walk = NoWalk
    /\ math_call \in MathCalls

NextMath == CallAlign \/ CallRoundToPow2

SpecMath == InitMath /\ [][NextMath]_vars

----
(***************************************************************************)
(* One slot, one producer: process 1 calls set, the others call get, on a  *)
(* directory that PortToUds::new has handed out to all of them.            *)
(***************************************************************************)
Writer == 1
TheSlot == 0

InitEntry ==
    /\ mapping_exists = TRUE
    /\ handle_count = NumDirProcs
    /\ init_check = IS_INITIALIZED
    /\ uds_names = [s \in Slots |-> EntryInitialized]
    /\ dpc = [p \in DirProcs |-> "idle"]
    /\ dloc = [p \in DirProcs |-> NoLocals]
    /\ completed = [s \in Slots |-> <<>>]
    /\ ShmUnused
    /\ UtilUnused

WriterSet == \E name \in SetNames : SetLoad(Writer, TheSlot, name)
WriterReset == SetLoad(Writer, TheSlot, ResetName)
ReaderGet(p) == p # Writer /\ GetLoad(p, TheSlot)

EntryStep(p) ==
    \/ SetZero(p)
    \/ SetCopy(p)
    \/ SetInc(p)
    \/ GetCopy(p)
    \/ GetCheck(p)
    \/ GetReturn(p)

NextEntry ==
    \/ WriterSet
    \/ WriterReset
    \/ \E p \in DirProcs : ReaderGet(p) \/ EntryStep(p)

SpecEntry == InitEntry /\ [][NextEntry]_vars

\* every call that has started keeps being scheduled; nothing forces a
\* process to start another call
FairSpecEntry == SpecEntry /\ \A p \in DirProcs : WF_vars(EntryStep(p))

----
(***************************************************************************)
(* Claims about Entry::set / Entry::get                                    *)
(***************************************************************************)

\* C1: with one process calling set and the others calling get on a slot,
\* a value returned by get is the initial all-zero buffer (the counter it
\* read was 1) or the zero-padded argument of the completed set call that
\* moved the counter to the value get read; it is never a mixture of writes.
C1_GetReturnsOneCompleteWrite ==
    \A p \in DirProcs :
        dpc[p] = "get_done" =>
            LET l == dloc[p]
                done == completed[l.port]
            IN  /\ l.current - 1 <= Len(done)
                /\ l.result = IF l.current = 1 THEN ZeroBuf ELSE done[l.current - 1]

\* a get returns a name while the producer is in the middle of its next set
C1_Witness ==
    \E p \in DirProcs :
        /\ dpc[p] = "get_done"
        /\ dloc[p].result # ZeroBuf
        /\ dpc[Writer] = "set_copy"
        /\ Len(completed[TheSlot]) = 1

\* C2: under fair scheduling and with finitely many set calls on the slot,
\* every get that has started eventually returns.
C2_GetEventuallyReturns ==
    \A p \in DirProcs : (dpc[p] = "get_copy") ~> (dpc[p] = "get_done")

----
(***************************************************************************)
(* Processes that obtain the directory with PortToUds::new and use it.     *)
(* Only the process that created the mapping calls initialize, so the Err  *)
(* branch of its compare_exchange (the spin) cannot be reached from new.   *)
(***************************************************************************)
InitNew ==
    /\ mapping_exists = FALSE
    /\ handle_count = 0
    /\ init_check = ZERO_PAGE
    /\ uds_names = [s \in Slots |-> ZeroEntry]
    /\ dpc = [p \in DirProcs |-> "start"]
    /\ dloc = [p \in DirProcs |-> NoLocals]
    /\ completed = [s \in Slots |-> <<>>]
    /\ ShmUnused
    /\ UtilUnused

\* the calls of a process that holds the directory; the callers of this
\* model all name the same port
DirectoryUse(p) ==
    \/ \E name \in SetNames : SetLoad(p, TheSlot, name)
    \/ GetLoad(p, TheSlot)
    \/ EntryStep(p)

NextNew ==
    \E p \in DirProcs :
        \/ NewCreateFileMapping(p)
        \/ NewMapFails(p)
        \/ NewMapped(p)
        \/ InitLoad(p)
        \/ InitCas(p)
        \/ InitEntries(p)
        \/ InitStore(p)
        \/ DirectoryUse(p)
        \/ DropPortToUds(p)

SpecNew == InitNew /\ [][NextNew]_vars

\* C3: a process holds a PortToUds only when init_check is IS_INITIALIZED,
\* so nothing runs on a slot while the creating process initializes the
\* entries.
C3_DirectoryHandedOutInitialized ==
    \A p \in DirProcs : HoldsDirectory(p) => init_check = IS_INITIALIZED

----
(***************************************************************************)
(* Several processes that have mapped the same fresh mapping and all run   *)
(* PortToUdsNameMap::initialize on it, then use the directory.             *)
(***************************************************************************)
InitInitialize ==
    /\ mapping_exists = TRUE
    /\ handle_count = NumDirProcs
    /\ init_check = ZERO_PAGE
    /\ uds_names = [s \in Slots |-> ZeroEntry]
    /\ dpc = [p \in DirProcs |-> "init_load"]
    /\ dloc = [p \in DirProcs |-> NoLocals]
    /\ completed = [s \in Slots |-> <<>>]
    /\ ShmUnused
    /\ UtilUnused

NextInitialize ==
    \E p \in DirProcs :
        \/ InitLoad(p)
        \/ InitCas(p)
        \/ InitEntries(p)
        \/ InitStore(p)
        \/ InitSpin(p)
        \/ DirectoryUse(p)

SpecInitialize == InitInitialize /\ [][NextInitialize]_vars

----
(***************************************************************************)
(* Shared memory: the handles of a process and the builder calls.          *)
(***************************************************************************)
\* every create call a caller can make in the current state
CreateCalls == [cfg : CreateConfigs, env : Environments]

\* how the create call would end if it ran now
CreateResult(call) ==
    CreateOutcome(call.cfg, shm_names, segments, HeldBy(handles), call.env)

\* the shared memory objects after a call that ended in context c
SegmentsAfter(c) ==
    Collected(c.names, c.segs,
              HeldBy(handles) \cup (IF c.res = "Ok" THEN {c.fd} ELSE {}))

\* the name still refers to the object it referred to, and this object has
\* the size and the contents it had
SegmentUntouched(name, c) ==
    /\ c.names[name] = shm_names[name]
    /\ SegmentsAfter(c)[shm_names[name]] = segments[shm_names[name]]

\* the callers that hold an owning handle of the name
Owners(name) ==
    {p \in Callers : /\ handles[p] # <<>>
                     /\ handles[p][1].name = name
                     /\ handles[p][1].has_ownership}

\* C5: for each segment name at most one live handle has has_ownership()
\* == true, whatever sequence of create, open_existing, try_open_existing,
\* acquire_ownership, release_ownership and drop ran before.
C5_AtMostOneOwnerPerName == \A name \in ShmNames : Cardinality(Owners(name)) <= 1

\* C6: a handle that did not create its segment is non-owning when it is
\* returned: open_existing, try_open_existing and OpenOrCreate on an
\* existing name return has_ownership() == false, also for a builder
\* configured with has_ownership(true).
C6_OpenedHandleIsNotOwning ==
    /\ \A call \in CreateCalls :
          LET c == CreateResult(call)
          IN  (c.res = "Ok" /\ ~c.shm_created) => ~HandleOf(c).has_ownership
    /\ \A cfg \in OpenConfigs, env \in Environments, quiet \in BOOLEAN :
          LET c == OpenOutcome(cfg, quiet, shm_names, segments, HeldBy(handles), env)
          IN  c.res = "Ok" => ~HandleOf(c).has_ownership /\ ~HandleOf(c).shm_created
    /\ (last_call.res = "Ok" /\ last_call.op \notin {"remove", "drop"}) =>
          /\ handles[Builder] # <<>>
          /\ ~handles[Builder][1].shm_created => ~handles[Builder][1].has_ownership

C6_Witness ==
    /\ last_call = [op |-> "OpenOrCreate", res |-> "Ok", existed |-> TRUE]
    /\ handles[Builder] # <<>>
    /\ ~handles[Builder][1].shm_created
    /\ ~handles[Builder][1].has_ownership

\* C7: dropping a handle unmaps and then unlinks the name exactly when
\* has_ownership() is true: after an owning drop the name does not exist,
\* after a non-owning drop existence, size and contents of every segment
\* are what they were.
C7_DropUnlinksExactlyWhenOwning ==
    [][\A p \in Callers :
          (handles[p] # <<>> /\ handles'[p] = <<>>) =>
             LET h == handles[p][1]
             IN  /\ DropSteps(h.has_ownership) =
                       IF h.has_ownership THEN <<"munmap", "shm_unlink">>
                       ELSE <<"munmap">>
                 /\ h.has_ownership => shm_names'[h.name] = NoSeg
                 /\ ~h.has_ownership =>
                       /\ shm_names' = shm_names
                       /\ \A n \in ShmNames :
                             shm_names[n] # NoSeg =>
                                segments'[shm_names[n]] = segments[shm_names[n]]]_vars

C7_Witness ==
    /\ last_call = [op |-> "drop", res |-> "none", existed |-> TRUE]
    /\ \A p \in Callers : handles[p] = <<>>
    /\ \E n \in ShmNames :
          /\ shm_names[n] # NoSeg
          /\ segments[shm_names[n]].size = MaxSize
          /\ segments[shm_names[n]].data[1] = 1

\* C8: create with CreateExclusive on an existing name fails with
\* AlreadyExist, returns no handle and leaves the existing segment's
\* existence, size and contents unchanged.
C8_CreateExclusiveOnExistingName ==
    /\ \A call \in CreateCalls :
          (/\ call.cfg.creation_mode = "CreateExclusive"
           /\ shm_names[call.cfg.name] # NoSeg) =>
             LET c == CreateResult(call)
             IN  /\ c.res = "AlreadyExist"
                 /\ SegmentUntouched(call.cfg.name, c)
    /\ (last_call.op = "CreateExclusive" /\ last_call.existed) =>
          /\ last_call.res = "AlreadyExist"
          /\ handles[Builder] = <<>>

C8_Witness ==
    /\ last_call = [op |-> "CreateExclusive", res |-> "AlreadyExist", existed |-> TRUE]
    /\ handles[Builder] = <<>>
    /\ \E n \in ShmNames :
          /\ shm_names[n] # NoSeg
          /\ segments[shm_names[n]].size = MaxSize
          /\ segments[shm_names[n]].data[1] = 1

\* the handle of an Ok call refers to a new segment of the configured size
\* that the name refers to
RefersToNewSegment(call, c) ==
    /\ c.res = "Ok"
    /\ c.shm_created
    /\ HandleOf(c).size = call.cfg.size
    /\ c.names[call.cfg.name] = c.fd
    /\ SegmentsAfter(c)[c.fd] =
          [size |-> call.cfg.size, data |-> [i \in 1 .. call.cfg.size |-> 0]]

\* the OS maps where the builder enforces it, if it enforces an address
MappedWhereEnforced(call) ==
    \/ call.cfg.enforce_base_address = NoAddress
    \/ call.cfg.enforce_base_address = call.env.addr

\* C9 as stated: create with PurgeAndCreate without OS resource errors
\* succeeds for an absent and for an existing name, and the handle refers
\* to a newly created segment of the configured size.
C9_PurgeAndCreateSucceeds ==
    \A call \in CreateCalls :
       (call.cfg.creation_mode = "PurgeAndCreate" /\ call.env.fault = "none") =>
          RefersToNewSegment(call, CreateResult(call))

\* C9: create with PurgeAndCreate without OS resource errors, with a
\* configured size > 0 and the mapping at the enforced base address if one
\* is enforced, succeeds for an absent and for an existing name; the handle
\* refers to a newly created segment of the configured size.
C9_PurgeAndCreateSucceedsForPositiveSize ==
    /\ \A call \in CreateCalls :
          (/\ call.cfg.creation_mode = "PurgeAndCreate"
           /\ call.env.fault = "none"
           /\ call.cfg.size > 0
           /\ MappedWhereEnforced(call)) =>
             RefersToNewSegment(call, CreateResult(call))
    /\ (last_call.op = "PurgeAndCreate" /\ last_call.res = "Ok") =>
          /\ handles[Builder] # <<>>
          /\ handles[Builder][1].shm_created
          /\ shm_names[handles[Builder][1].name] = handles[Builder][1].file_descriptor

C9_Witness ==
    /\ last_call = [op |-> "PurgeAndCreate", res |-> "Ok", existed |-> TRUE]
    /\ handles[Builder] # <<>>
    /\ handles[Builder][1].size = MaxSize
    /\ segments[handles[Builder][1].file_descriptor].size = MaxSize

\* an OpenOrCreate call on an existing segment of another size
OpenOrCreateSizeMismatch(call) ==
    /\ call.cfg.creation_mode = "OpenOrCreate"
    /\ shm_names[call.cfg.name] # NoSeg
    /\ segments[shm_names[call.cfg.name]].size # call.cfg.size

\* C10 as stated: OpenOrCreate on an existing segment whose size differs
\* from the configured size fails with SizeDoesNotFit, returns no handle
\* and leaves the segment as it was.
C10_SizeMismatchIsSizeDoesNotFit ==
    \A call \in CreateCalls :
       OpenOrCreateSizeMismatch(call) =>
          LET c == CreateResult(call)
          IN  /\ c.res = "SizeDoesNotFit"
              /\ SegmentUntouched(call.cfg.name, c)

\* C10: OpenOrCreate on an existing segment whose size differs from the
\* configured size fails, returns no handle and leaves the segment as it
\* was; the error is UnsupportedSizeOfZero for a configured size of 0,
\* UnableToMapAtEnforcedBaseAddress if the mapping is not at the enforced
\* address, and SizeDoesNotFit otherwise.
C10_SizeMismatchFails ==
    /\ \A call \in CreateCalls :
          OpenOrCreateSizeMismatch(call) =>
             LET c == CreateResult(call)
             IN  /\ c.res = IF call.cfg.size = 0 THEN "UnsupportedSizeOfZero"
                            ELSE IF ~MappedWhereEnforced(call)
                                 THEN "UnableToMapAtEnforcedBaseAddress"
                                 ELSE "SizeDoesNotFit"
                 /\ SegmentUntouched(call.cfg.name, c)
    /\ last_call.res = "SizeDoesNotFit" => handles[Builder] = <<>>

C10_Witness ==
    /\ last_call = [op |-> "OpenOrCreate", res |-> "SizeDoesNotFit", existed |-> TRUE]
    /\ handles[Builder] = <<>>
    /\ \E n \in ShmNames :
          /\ shm_names[n] # NoSeg
          /\ segments[shm_names[n]].size = 1
          /\ segments[shm_names[n]].data[1] = 1

\* every open_existing (quiet = FALSE) and try_open_existing (quiet = TRUE)
\* call a caller can make in the current state
OpenCalls == [cfg : OpenConfigs, env : Environments, quiet : BOOLEAN]

\* how the open call would end if it ran now
OpenResult(call) ==
    OpenOutcome(call.cfg, call.quiet, shm_names, segments, HeldBy(handles), call.env)

\* the step replaced the segment of the name (unlink and create in one call)
Recreated(name) == last_call'.op = "PurgeAndCreate"

\* C11: a successful create that creates the segment with configured size
\* s > 0 returns a handle of size s, and as long as that segment exists an
\* open_existing or try_open_existing of the name returns a handle of size s:
\* the created segment has size s, a segment keeps its size while its name
\* refers to it, and open succeeds with the size of the segment.
C11_CreatedSizeIsOpenedSize ==
    /\ [](\A call \in CreateCalls :
            LET c == CreateResult(call)
            IN  (c.res = "Ok" /\ c.shm_created) =>
                   /\ HandleOf(c).size = call.cfg.size
                   /\ SegmentsAfter(c)[c.names[call.cfg.name]].size = call.cfg.size)
    /\ [](\A call \in OpenCalls :
            LET c == OpenResult(call)
                seg == segments[shm_names[call.cfg.name]]
            IN  /\ c.res = "Ok" => HandleOf(c).size = seg.size
                /\ (/\ shm_names[call.cfg.name] # NoSeg
                    /\ seg.size > 0
                    /\ MappedWhereEnforced(call)) => c.res = "Ok")
    /\ [](\A p \in Callers :
            handles[p] # <<>> =>
               segments[handles[p][1].file_descriptor].size = handles[p][1].size)
    /\ [][\A n \in ShmNames :
            (shm_names[n] # NoSeg /\ shm_names'[n] # NoSeg /\ ~Recreated(n)) =>
               /\ shm_names'[n] = shm_names[n]
               /\ segments'[shm_names[n]].size = segments[shm_names[n]].size]_vars

C11_Witness ==
    /\ last_call = [op |-> "try_open_existing", res |-> "Ok", existed |-> TRUE]
    /\ handles[Builder] # <<>>
    /\ handles[Builder][1].size = MaxSize
    /\ ~handles[Builder][1].shm_created
    /\ segments[handles[Builder][1].file_descriptor].size = MaxSize

\* the call of context c got a mapping from mmap
Mapped(c) == c.base_address # NoAddress

\* what C12 says about a call with configuration cfg that ended in context c
EnforcedAddressHolds(cfg, c) ==
    cfg.enforce_base_address # NoAddress =>
       /\ c.res = "Ok" => HandleOf(c).base_address = cfg.enforce_base_address
       /\ (Mapped(c) /\ c.base_address # cfg.enforce_base_address) =>
             c.res = "UnableToMapAtEnforcedBaseAddress"

\* C12: with enforce_base_address(a), open_existing, try_open_existing and
\* create return a handle only if the mapping's base address is a, and fail
\* with UnableToMapAtEnforcedBaseAddress whenever the OS mapped elsewhere.
C12_EnforcedBaseAddress ==
    /\ \A call \in CreateCalls : EnforcedAddressHolds(call.cfg, CreateResult(call))
    /\ \A call \in OpenCalls : EnforcedAddressHolds(call.cfg, OpenResult(call))
    /\ last_call.res = "UnableToMapAtEnforcedBaseAddress" => handles[Builder] = <<>>

C12_Witness ==
    /\ last_call = [op |-> "open_existing", res |-> "UnableToMapAtEnforcedBaseAddress",
                    existed |-> TRUE]
    /\ handles[Builder] = <<>>
    /\ \E call \in OpenCalls :
          /\ call.cfg.enforce_base_address = "A"
          /\ OpenResult(call).res = "Ok"
          /\ HandleOf(OpenResult(call)).base_address = "A"

\* C13: whenever open_existing, try_open_existing or create returns an
\* error after its mmap succeeded, the mapping has been unmapped when the
\* call returns.
C13_NoMappingOutlivesFailedCall ==
    /\ \A call \in CreateCalls :
          LET c == CreateResult(call) IN c.res # "Ok" => c.leaked = 0
    /\ \A call \in OpenCalls :
          LET c == OpenResult(call) IN c.res # "Ok" => c.leaked = 0

\* C14: no handle has size() == 0: create with configured size 0 on an
\* absent name fails with UnsupportedSizeOfZero, and so does open_existing
\* of a segment whose size is 0.
C14_NoHandleOfSizeZero ==
    /\ \A p \in Callers : handles[p] # <<>> => handles[p][1].size > 0
    /\ \A call \in CreateCalls :
          LET c == CreateResult(call)
          IN  /\ c.res = "Ok" => HandleOf(c).size > 0
              /\ (call.cfg.size = 0 /\ shm_names[call.cfg.name] = NoSeg) =>
                    c.res = "UnsupportedSizeOfZero"
    /\ \A call \in OpenCalls :
          LET c == OpenResult(call)
          IN  /\ c.res = "Ok" => HandleOf(c).size > 0
              /\ (/\ shm_names[call.cfg.name] # NoSeg
                  /\ segments[shm_names[call.cfg.name]].size = 0) =>
                    c.res = "UnsupportedSizeOfZero"

C14_Witness ==
    /\ last_call = [op |-> "open_existing", res |-> "UnsupportedSizeOfZero",
                    existed |-> TRUE]
    /\ handles[Builder] = <<>>
    /\ \E n \in ShmNames :
          shm_names[n] # NoSeg /\ segments[shm_names[n]].size = 0

----
(***************************************************************************)
(* The directory: what get and get_port return after set and reset.        *)
(***************************************************************************)
\* C15: a get on a slot that begins after a set has completed, with no set
\* or reset completing since, returns the zero-padded name of that set: the
\* counter counts the completed sets, and a get that read the counter of the
\* latest completed set returns the name of that set.
C15_GetReturnsLatestWrite ==
    /\ \A s \in Slots : uds_names[s].aba_counter = Len(completed[s]) + 1
    /\ \A p \in DirProcs :
          (/\ dpc[p] = "get_done"
           /\ Len(completed[dloc[p].port]) >= 1
           /\ dloc[p].current = Len(completed[dloc[p].port]) + 1) =>
             dloc[p].result = completed[dloc[p].port][Len(completed[dloc[p].port])]

C15_Witness ==
    \E p \in DirProcs :
        /\ dpc[p] = "get_done"
        /\ dpc[Writer] = "idle"
        /\ Len(completed[TheSlot]) = 2
        /\ completed[TheSlot][1] # completed[TheSlot][2]
        /\ dloc[p].current = 3
        /\ dloc[p].result = completed[TheSlot][2]
        /\ dloc[p].result # ZeroBuf

----
(***************************************************************************)
(* Whole calls on the directory, one after the other: set, reset, get and  *)
(* get_port of a process that holds an initialized directory.              *)
(***************************************************************************)
\* the values of a u16 port; the largest, u16::MAX = 65535, is the length
\* of uds_names
MaxPort == NumSlots
Ports == 0 .. MaxPort

\* Entry::set run from its first to its last step
EntrySet(e, name) ==
    [aba_counter |-> e.aba_counter + 1,
     value |-> [e.value EXCEPT ![SetBufferIndex(e.aba_counter)] = Padded(name)]]

\* a get that copies the buffer the next set will write
EntryGetOtherBuffer(e) == e.value[SetBufferIndex(e.aba_counter)]

\* Entry::get run from its first to its last step
EntryGet(e) == e.value[GetBufferIndex(e.aba_counter)]

\* entry_name.iter().position(|c| *c == 0).unwrap_or(0), an index from 0
ZeroPosition(buf) ==
    IF \E i \in BufIdx : buf[i] = 0
    THEN (CHOOSE i \in BufIdx : buf[i] = 0 /\ \A j \in 1 .. (i - 1) : buf[j] # 0) - 1
    ELSE 0

\* the loop of PortToUdsNameMap::get_port from index i on
RECURSIVE GetPortFrom(_, _, _)
GetPortFrom(entries, i, name) ==
    IF i >= NumSlots
    THEN 0
    ELSE LET entry_name == EntryGet(entries[i])
             pos == ZeroPosition(entry_name)
         IN  IF pos = 0 \/ pos > Len(name)
             THEN GetPortFrom(entries, i + 1, name)
             ELSE IF \A k \in 1 .. pos : entry_name[k] = name[k]
                  THEN i
                  ELSE GetPortFrom(entries, i + 1, name)

\* PortToUdsNameMap::get_port
GetPort(entries, name) == GetPortFrom(entries, 0, name)

\* the set and reset calls that have returned, over all slots
RECURSIVE CompletedBelow(_)
CompletedBelow(i) ==
    IF i = 0 THEN 0 ELSE Len(completed[i - 1]) + CompletedBelow(i - 1)

\* self.uds_names[port as usize].set(name): an index outside the array
\* panics
CallSetName(p, port, name) ==
    /\ dpc[p] = "idle"
    /\ CompletedBelow(NumSlots) < MaxSets
    /\ IF port \in Slots
       THEN /\ uds_names' = [uds_names EXCEPT ![port] = EntrySet(@, name)]
            /\ completed' = [completed EXCEPT ![port] = Append(@, Padded(name))]
            /\ UNCHANGED <<dpc, dloc>>
       ELSE /\ dpc' = [dpc EXCEPT ![p] = "panicked"]
            /\ dloc' = [dloc EXCEPT ![p] = [NoLocals EXCEPT !.port = port]]
            /\ UNCHANGED <<uds_names, completed>>
    /\ UNCHANGED <<mapping_exists, handle_count, init_check, shmVars, utilVars>>

\* PortToUds::set
CallSet(p) == \E port \in Ports, name \in SetNames : CallSetName(p, port, name)

\* PortToUds::reset
CallReset(p) == \E port \in Ports : CallSetName(p, port, ResetName)

\* self.uds_names[port as usize].get()
CallGet(p) ==
    /\ dpc[p] = "idle"
    /\ \E port \in Ports :
         IF port \in Slots
         THEN /\ dpc' = [dpc EXCEPT ![p] = "get_done"]
              /\ dloc' = [dloc EXCEPT ![p] =
                            [NoLocals EXCEPT !.port = port,
                                             !.current = uds_names[port].aba_counter,
                                             !.result = EntryGet(uds_names[port])]]
         ELSE /\ dpc' = [dpc EXCEPT ![p] = "panicked"]
              /\ dloc' = [dloc EXCEPT ![p] = [NoLocals EXCEPT !.port = port]]
    /\ UNCHANGED <<mapping_exists, handle_count, init_check, uds_names, completed, shmVars, utilVars>>

\* PortToUds::get_port: the query is kept in name, the result in port
CallGetPort(p) ==
    /\ dpc[p] = "idle"
    /\ \E name \in SetNames :
         dloc' = [dloc EXCEPT ![p] = [NoLocals EXCEPT !.name = name,
                                                     !.port = GetPort(uds_names, name)]]
    /\ dpc' = [dpc EXCEPT ![p] = "get_port_done"]
    /\ UNCHANGED <<mapping_exists, handle_count, init_check, uds_names, completed, shmVars, utilVars>>

\* get_port returns its result to the caller
GetPortReturn(p) ==
    /\ dpc[p] = "get_port_done"
    /\ dpc' = [dpc EXCEPT ![p] = "idle"]
    /\ dloc' = [dloc EXCEPT ![p] = NoLocals]
    /\ UNCHANGED <<mapping_exists, handle_count, init_check, uds_names, completed, shmVars, utilVars>>

NextDirectory ==
    \E p \in DirProcs :
        \/ CallSet(p)
        \/ CallReset(p)
        \/ CallGet(p)
        \/ GetReturn(p)
        \/ CallGetPort(p)
        \/ GetPortReturn(p)

SpecDirectory == InitEntry /\ [][NextDirectory]_vars

\* the name a slot currently stores, as get returns it
StoredName(s) == EntryGet(uds_names[s])

\* the non-empty names stored on different ports are pairwise different
StoredNamesDiffer ==
    \A s, t \in Slots :
        (s # t /\ StoredName(s) # ZeroBuf) => StoredName(s) # StoredName(t)

\* C16: when the names stored on different ports are pairwise different,
\* get_port(n) returns p for every port p that stores a non-empty name n.
C16_GetPortFindsStoredName ==
    StoredNamesDiffer =>
       \A s \in Slots, n \in SetNames :
           (Len(n) >= 1 /\ StoredName(s) = Padded(n)) => GetPort(uds_names, n) = s

\* C17: get_port(q) returns 0 when q is empty or no slot stores exactly q,
\* also when a stored name is a proper prefix of q.
C17_GetPortMatchesExactly ==
    /\ \A q \in SetNames :
          (q = <<>> \/ \A s \in Slots : StoredName(s) # Padded(q)) =>
             GetPort(uds_names, q) = 0
    /\ \A p \in DirProcs :
          (/\ dpc[p] = "get_port_done"
           /\ \A s \in Slots : StoredName(s) # Padded(dloc[p].name)) =>
             dloc[p].port = 0

\* the last set or reset that returned on the slot stored the empty name
LastStoredEmpty(s) ==
    /\ Len(completed[s]) >= 1
    /\ completed[s][Len(completed[s])] = ZeroBuf

\* C18: after reset(p) has completed and until the next set of a non-empty
\* name on p, get(p) returns the all-zero buffer and get_port returns p
\* (a port of 1..65535) for no name; a reset changes no slot but its own.
C18_ResetEmptiesOnlyItsSlot ==
    /\ [](\A s \in Slots :
            LastStoredEmpty(s) =>
               /\ StoredName(s) = ZeroBuf
               /\ \A q \in SetNames : s # 0 => GetPort(uds_names, q) # s
               /\ \A p \in DirProcs :
                     (/\ dpc[p] = "get_done"
                      /\ dloc[p].port = s
                      /\ dloc[p].current = uds_names[s].aba_counter) =>
                        dloc[p].result = ZeroBuf)
    /\ [][\A s \in Slots :
            Len(completed'[s]) = Len(completed[s]) => uds_names'[s] = uds_names[s]]_vars

C18_Witness ==
    \E p \in DirProcs, s \in Slots \ {0} :
        /\ Len(completed[s]) = 2
        /\ completed[s][1] # ZeroBuf
        /\ LastStoredEmpty(s)
        /\ dpc[p] = "get_done"
        /\ dloc[p].port = s
        /\ dloc[p].current = uds_names[s].aba_counter
        /\ dloc[p].result = ZeroBuf
        /\ \E t \in Slots \ {s} : uds_names[t] = EntryInitialized

\* C19: set, get and reset with a port of 1..65535 address a slot of the
\* array: no such call indexes outside uds_names.
C19_PortsAddressExistingSlots ==
    \A p \in DirProcs : dpc[p] = "panicked" => dloc[p].port \notin 1 .. MaxPort

\* a process is inside Entry::set
InSet(p) == dpc[p] \in {"set_zero", "set_copy", "set_inc"}

\* C20: attaching another PortToUds to an initialized mapping changes no
\* slot: while the mapping lives, init_check stays IS_INITIALIZED and a slot
\* changes only through a set or reset of a process, so the names set
\* before the attach stay as they are for every instance of the mapping.
C20_AttachChangesNoSlot ==
    [][(mapping_exists /\ mapping_exists' /\ init_check = IS_INITIALIZED) =>
          /\ init_check' = IS_INITIALIZED
          /\ uds_names' # uds_names => \E p \in DirProcs : InSet(p)
          /\ completed' # completed => \E p \in DirProcs : dpc[p] = "set_inc"
          /\ \A p \in DirProcs :
                (dpc[p] \in {"start", "new_map"} /\ dpc'[p] # dpc[p]) =>
                   /\ uds_names' = uds_names
                   /\ dpc'[p] \in {"start", "new_map", "idle"}]_vars

C20_Witness ==
    \E p, q \in DirProcs :
        /\ p # q
        /\ init_check = IS_INITIALIZED
        /\ handle_count = 2
        /\ dpc[p] = "get_done"
        /\ dloc[p].result # ZeroBuf
        /\ dpc[q] = "idle"
        /\ uds_names[TheSlot].aba_counter = 2

----
(***************************************************************************)
(* Claims about opening, probing and removing names                        *)
(***************************************************************************)

\* C21: open_existing and try_open_existing on a name that does not exist
\* both fail with DoesNotExist, create no segment and leave every name and
\* every segment as it was; in every state and for every configuration the
\* two calls end the same way (result, handle, names, segments), they
\* differ only in whether the error is logged.
C21_OpenOfMissingNameFails ==
    \A call \in OpenCalls :
        LET c == OpenResult(call)
            other == OpenResult([call EXCEPT !.quiet = ~call.quiet])
        IN  /\ shm_names[call.cfg.name] = NoSeg =>
                  /\ c.res = "DoesNotExist"
                  /\ c.names = shm_names
                  /\ SegmentsAfter(c) = segments
                  /\ c.logged = ~call.quiet
            /\ c.res = other.res
            /\ c.names = other.names
            /\ SegmentsAfter(c) = SegmentsAfter(other)
            /\ c.res = "Ok" => HandleOf(c) = HandleOf(other)

\* try_open_existing ran while no name existed and failed
C21_Witness ==
    /\ last_call = [op |-> "try_open_existing", res |-> "DoesNotExist", existed |-> FALSE]
    /\ \A n \in ShmNames : shm_names[n] = NoSeg

\* the open calls of SpecNames
NamesOpenCalls == [cfg : NamesOpenConfigs, env : PlainEnvironments, quiet : BOOLEAN]

\* the mappings of all handles show the objects in segs as they are in the
\* current state
MappingsKept(segs) ==
    \A p \in Callers :
        handles[p] # <<>> =>
            segs[handles[p][1].file_descriptor] = segments[handles[p][1].file_descriptor]

\* C22: remove(name) on an existing name returns Ok, afterwards
\* does_exist(name) is false and open_existing / try_open_existing of the
\* name fail with DoesNotExist, no other name is touched, and the handles
\* opened before are kept with the contents of their mappings; remove(name)
\* on a name that does not exist returns DoesNotExist and changes no name,
\* no segment and no handle.
C22_RemoveUnlinksTheName ==
    /\ [](\A name \in ShmNames :
            LET r == RemoveOutcome(shm_names, name)
                after == Collected(r.names, segments, HeldBy(handles))
            IN  /\ shm_names[name] # NoSeg =>
                      /\ r.res = "Ok"
                      /\ ~DoesExistOutcome(r.names, name).result
                      /\ \A call \in NamesOpenCalls :
                            call.cfg.name = name =>
                               OpenOutcome(call.cfg, call.quiet, r.names, after,
                                           HeldBy(handles), call.env).res = "DoesNotExist"
                      /\ \A other \in ShmNames \ {name} : r.names[other] = shm_names[other]
                      /\ MappingsKept(after)
                /\ shm_names[name] = NoSeg =>
                      /\ r.res = "DoesNotExist"
                      /\ r.names = shm_names
                      /\ after = segments)
    /\ [][last_call'.op = "remove" => handles' = handles]_vars

\* a name was removed while a handle opened before is still held and its
\* mapping still shows the byte written through it
C22_Witness ==
    /\ last_call = [op |-> "remove", res |-> "Ok", existed |-> TRUE]
    /\ \E p \in Callers :
          /\ handles[p] # <<>>
          /\ shm_names[handles[p][1].name] = NoSeg
          /\ segments[handles[p][1].file_descriptor] = Written(Truncated(EmptySegment, MaxSize))

\* C23: does_exist(name) returns true exactly when a segment of that name
\* exists, which is exactly when open_existing of the name succeeds; the
\* call creates, removes, resizes and modifies no segment, changes no
\* handle and leaves no file descriptor open.
C23_DoesExistOnlyProbes ==
    /\ [](\A name \in ShmNames :
            LET r == DoesExistOutcome(shm_names, name)
            IN  /\ r.result <=> shm_names[name] # NoSeg
                /\ \A call \in NamesOpenCalls :
                      call.cfg.name = name => (r.result <=> OpenResult(call).res = "Ok")
                /\ r.names = shm_names
                /\ r.fds = {}
                /\ Collected(r.names, segments, HeldBy(handles) \cup r.fds) = segments)
    /\ [][last_call'.op = "does_exist" =>
            /\ UNCHANGED <<shm_names, segments, handles>>
            /\ last_call'.res = IF last_call'.existed THEN "true" ELSE "false"]_vars

\* does_exist returned false for a name that was removed while a handle of
\* its segment is still held, and another name exists
C23_Witness ==
    /\ last_call = [op |-> "does_exist", res |-> "false", existed |-> FALSE]
    /\ \E p \in Callers :
          /\ handles[p] # <<>>
          /\ shm_names[handles[p][1].name] = NoSeg
    /\ \E n \in ShmNames : shm_names[n] # NoSeg

\* C24: dropping an owning handle whose name no longer exists (after a
\* remove, a purge or the drop of another owning handle) still unmaps, then
\* calls shm_unlink, whose DoesNotExist stays inside the drop; the drop
\* completes, the handle is gone, its object is freed unless another handle
\* holds it, and no name, no other handle and no other segment changes; a
\* drop never changes a name other than the one of the handle.
C24_OwningDropOfRemovedName ==
    [][\A p \in Callers :
          /\ (handles[p] # <<>> /\ handles'[p] = <<>>) =>
                \A n \in ShmNames \ {handles[p][1].name} : shm_names'[n] = shm_names[n]
          /\ (/\ handles[p] # <<>>
              /\ handles'[p] = <<>>
              /\ handles[p][1].has_ownership
              /\ shm_names[handles[p][1].name] = NoSeg) =>
             LET h == handles[p][1]
             IN  /\ DropSteps(h.has_ownership) = <<"munmap", "shm_unlink">>
                 /\ last_call' = [op |-> "drop", res |-> "DoesNotExist", existed |-> FALSE]
                 /\ shm_names' = shm_names
                 /\ \A q \in Callers \ {p} : handles'[q] = handles[q]
                 /\ \A s \in SegIds \ {h.file_descriptor} : segments'[s] = segments[s]
                 /\ segments'[h.file_descriptor] =
                       IF h.file_descriptor \in HeldBy(handles')
                       THEN segments[h.file_descriptor] ELSE EmptySegment]_vars

\* an owning handle was dropped after its name had been removed, while
\* another name exists and another handle is held
C24_Witness ==
    /\ last_call = [op |-> "drop", res |-> "DoesNotExist", existed |-> FALSE]
    /\ \E n \in ShmNames : shm_names[n] # NoSeg
    /\ \E p \in Callers : handles[p] # <<>>

WithOwnership(h, flag) == [h EXCEPT !.has_ownership = flag]

\* C27: release_ownership and acquire_ownership are idempotent, after
\* either call has_ownership() is what the last call set (false after
\* release, true after acquire), and a call changes nothing but the flag of
\* the handle it is called on: name, size, base address and mapping of the
\* handle, every other handle, every name and every segment stay as they
\* are.
C27_OwnershipCallsSetOnlyTheFlag ==
    /\ [](\A p \in Callers :
            handles[p] # <<>> =>
               LET h == handles[p][1]
               IN  /\ Released(Released(h)) = Released(h)
                   /\ Acquired(Acquired(h)) = Acquired(h)
                   /\ Released(Acquired(h)) = Released(h)
                   /\ Acquired(Released(h)) = Acquired(h)
                   /\ Released(h) = WithOwnership(h, FALSE)
                   /\ Acquired(h) = WithOwnership(h, TRUE))
    /\ [][last_call'.op \in {"acquire_ownership", "release_ownership"} =>
            /\ shm_names' = shm_names
            /\ segments' = segments
            /\ \E p \in Callers :
                  /\ handles[p] # <<>>
                  /\ handles' = [handles EXCEPT
                                   ![p][1] = WithOwnership(@, last_call'.op = "acquire_ownership")]]_vars

\* release_ownership ran on the handle of the creator of an existing
\* segment while another caller holds a handle of the same name
C27_Witness ==
    /\ last_call = [op |-> "release_ownership", res |-> "none", existed |-> TRUE]
    /\ \E p \in Callers, q \in Callers :
          /\ p # q
          /\ handles[p] # <<>>
          /\ handles[q] # <<>>
          /\ handles[p][1].shm_created
          /\ ~handles[p][1].has_ownership
          /\ segments[handles[p][1].file_descriptor].size = MaxSize

----
(***************************************************************************)
(* Claims about the order of the steps of create                           *)
(***************************************************************************)

\* the order of create's statements from the exclusive shm_open on
CreatingOrder ==
    <<"shm_create", "mmap", "enforce", "truncate", "stat_created", "mlock", "zero">>

\* the OS calls a create that creates the segment makes when all succeed
CreatingCalls(cfg) ==
    <<"shm_create", "mmap", "ftruncate", "fstat">>
       \o (IF cfg.is_memory_locked THEN <<"mlock">> ELSE <<>>)
       \o (IF cfg.zero_memory THEN <<"memset">> ELSE <<>>)

IsPrefix(s, t) == Len(s) <= Len(t) /\ SubSeq(t, 1, Len(s)) = s

\* the part of seq from its first element `first` on
From(seq, first) ==
    LET i == CHOOSE i \in 1 .. Len(seq) :
                 seq[i] = first /\ \A j \in 1 .. i - 1 : seq[j] # first
    IN  SubSeq(seq, i, Len(seq))

\* the calls of create itself, without those of the drop of `shm`
IsCreateCall(step) == step \notin {"munmap", "shm_unlink"}

Contains(seq, x) == \E i \in 1 .. Len(seq) : seq[i] = x

\* C30: a create call that itself creates the segment passes, from the
\* exclusive shm_open on, through mmap, the enforced-base check, ftruncate
\* to the configured size, the size verification, the memory lock and the
\* zeroing in this order and stops at the first step that fails; the lock
\* is attached only if is_memory_locked and the memory zeroed only if
\* zero_memory; memory is zeroed only after the segment has the configured
\* size and, if configured, after the lock is attached; the call returns a
\* handle only after every configured step was made and succeeded.
C30_CreateStepsInOrder ==
    \A call \in CreateCalls :
        LET c == CreateResult(call)
            pcs == Positions(CallContext(call.cfg, shm_names, segments, HeldBy(handles)),
                             call.env)
        IN  c.shm_created =>
               LET calls == SelectSeq(From(c.steps, "shm_create"), IsCreateCall)
               IN  /\ IsPrefix(From(pcs, "shm_create"), CreatingOrder)
                   /\ IsPrefix(calls, CreatingCalls(call.cfg))
                   /\ c.res = "Ok" =>
                         /\ From(pcs, "shm_create") = CreatingOrder
                         /\ calls = CreatingCalls(call.cfg)
                         /\ c.memory_lock = call.cfg.is_memory_locked
                   /\ Contains(calls, "memset") =>
                         /\ c.segs[c.fd].size = call.cfg.size
                         /\ call.cfg.is_memory_locked => c.memory_lock

\* a create made the segment, locked and zeroed it and returned the handle
C30_Witness ==
    /\ last_call = [op |-> "CreateExclusive", res |-> "Ok", existed |-> FALSE]
    /\ handles[Builder] # <<>>
    /\ handles[Builder][1].shm_created
    /\ handles[Builder][1].memory_lock
    /\ segments[handles[Builder][1].file_descriptor] = Truncated(EmptySegment, MaxSize)

\* C31: a create with OpenOrCreate on a name that exists makes no
\* ftruncate, no memset and no memory lock, whatever zero_memory and
\* is_memory_locked are, and creates nothing: the name refers to the same
\* segment with the size and the contents it had; if the size matches and
\* the mapping is where it was enforced, the call returns a handle of that
\* segment without a memory lock.
C31_OpenOrCreateOpensUntouched ==
    \A call \in CreateCalls :
        (call.cfg.creation_mode = "OpenOrCreate" /\ shm_names[call.cfg.name] # NoSeg) =>
            LET c == CreateResult(call)
            IN  /\ ~c.shm_created
                /\ ~Contains(c.steps, "shm_create")
                /\ ~Contains(c.steps, "ftruncate")
                /\ ~Contains(c.steps, "memset")
                /\ ~Contains(c.steps, "mlock")
                /\ ~c.memory_lock
                /\ SegmentUntouched(call.cfg.name, c)
                /\ (/\ segments[shm_names[call.cfg.name]].size = call.cfg.size
                    /\ call.cfg.size > 0
                    /\ MappedWhereEnforced(call)) =>
                       /\ c.res = "Ok"
                       /\ HandleOf(c).file_descriptor = shm_names[call.cfg.name]

\* OpenOrCreate opened a segment that holds a written byte and the byte is
\* still there
C31_Witness ==
    /\ last_call = [op |-> "OpenOrCreate", res |-> "Ok", existed |-> TRUE]
    /\ handles[Builder] # <<>>
    /\ segments[handles[Builder][1].file_descriptor] = Written(Truncated(EmptySegment, MaxSize))

\* C32: if a create call that itself created the name returns an error,
\* the name does not exist when the call returns, for every has_ownership
\* setting.
C32_FailedCreateLeavesNoSegment ==
    \A call \in CreateCalls :
        LET c == CreateResult(call)
        IN  (c.shm_created /\ c.res # "Ok") => c.names[call.cfg.name] = NoSeg

\* all racing create calls have returned
AllReturned == Running = {}

\* the callers whose handle is owning
OwningCallers == {p \in Callers : handles[p] # <<>> /\ handles[p][1].has_ownership}

\* C33 as stated: when the callers call create with OpenOrCreate for the
\* same absent name and the same size concurrently, every call returns a
\* handle and exactly one handle is owning.
C33_ConcurrentOpenOrCreateAllSucceed ==
    AllReturned =>
       /\ \A p \in Callers : create_calls[p].res = "Ok" /\ handles[p] # <<>>
       /\ Cardinality(OwningCallers) = 1

\* C33, amended: under every interleaving exactly one call creates the
\* segment, and this call returns an owning handle of the configured size;
\* every other call returns a non-owning handle of the same segment or
\* fails with AlreadyExist or with SizeDoesNotFit, and none fails with
\* UnsupportedSizeOfZero; the name exists afterwards.
C33_ConcurrentOpenOrCreate ==
    AllReturned =>
       /\ Cardinality({p \in Callers : create_calls[p].shm_created}) = 1
       /\ \A p \in Callers :
             LET c == create_calls[p]
             IN  IF c.shm_created
                 THEN /\ c.res = "Ok"
                      /\ handles[p] # <<>>
                      /\ handles[p][1].has_ownership
                      /\ handles[p][1].size = c.cfg.size
                      /\ shm_names[RaceName] = handles[p][1].file_descriptor
                      /\ segments[shm_names[RaceName]].size = c.cfg.size
                 ELSE /\ c.res \in {"Ok", "AlreadyExist", "SizeDoesNotFit"}
                      /\ c.res = "Ok" =>
                            /\ handles[p] # <<>>
                            /\ ~handles[p][1].has_ownership
                            /\ handles[p][1].file_descriptor = shm_names[RaceName]
                      /\ c.res # "Ok" => handles[p] = <<>>
       /\ Cardinality(OwningCallers) = 1

\* all calls returned, one with a handle and one with SizeDoesNotFit: it
\* opened the segment before the creating call had truncated it
C33_Witness ==
    /\ AllReturned
    /\ \E p \in Callers : create_calls[p].res = "SizeDoesNotFit"
    /\ \E p \in Callers : handles[p] # <<>>

\* C34: the drop of an owning handle removes only the segment its own
\* create call created: if the name was unlinked and created again in the
\* meantime, so that it refers to a newer segment, dropping the older
\* owning handle leaves the name and the newer segment as they are.
C34_DropLeavesNewerSegment ==
    [][\A p \in Callers :
          (/\ handles[p] # <<>>
           /\ handles'[p] = <<>>
           /\ handles[p][1].has_ownership
           /\ shm_names[handles[p][1].name] \notin {NoSeg, handles[p][1].file_descriptor}) =>
             LET name == handles[p][1].name
             IN  /\ shm_names'[name] = shm_names[name]
                 /\ segments'[shm_names[name]] = segments[shm_names[name]]]_vars

----
(***************************************************************************)
(* One slot, two producers: processes 1 and 2 each call set once on a slot *)
(* that holds the name of an earlier set; their steps interleave in any    *)
(* order.  After both calls have returned any process may call get.        *)
(***************************************************************************)
Setters == {1, 2}

\* the arguments of set: a name or the all-zero buffer of reset
SetArguments == SetNames \cup {ResetName}

\* let current = self.aba_counter.load(Acquire), in a call of set whose
\* arguments dloc[p] holds
SetBegin(p) ==
    /\ dpc[p] = "set_call"
    /\ dpc' = [dpc EXCEPT ![p] = "set_zero"]
    /\ dloc' = [dloc EXCEPT ![p].current = uds_names[dloc[p].port].aba_counter,
                            ![p].i = 1]
    /\ UNCHANGED <<mapping_exists, handle_count, init_check, uds_names, completed, shmVars, utilVars>>

\* no call of set is running
SetsReturned == \A q \in DirProcs : dpc[q] \notin {"set_call", "set_zero", "set_copy", "set_inc"}

\* a get that starts after the calls of set have returned
SubsequentGet(p) == SetsReturned /\ GetLoad(p, TheSlot)

InitSets ==
    /\ mapping_exists = TRUE
    /\ handle_count = NumDirProcs
    /\ init_check = IS_INITIALIZED
    /\ \E earlier \in SetArguments :
          /\ uds_names = [s \in Slots |-> IF s = TheSlot
                                          THEN EntrySet(EntryInitialized, earlier)
                                          ELSE EntryInitialized]
          /\ completed = [s \in Slots |-> IF s = TheSlot THEN <<Padded(earlier)>> ELSE <<>>]
    /\ dpc = [p \in DirProcs |-> IF p \in Setters THEN "set_call" ELSE "idle"]
    /\ \E names \in [Setters -> SetArguments] :
          dloc = [p \in DirProcs |->
                    IF p \in Setters
                    THEN [NoLocals EXCEPT !.port = TheSlot, !.name = names[p]]
                    ELSE NoLocals]
    /\ ShmUnused
    /\ UtilUnused

NextSets ==
    \E p \in DirProcs :
       \/ SetBegin(p)
       \/ SetZero(p)
       \/ SetCopy(p)
       \/ SetInc(p)
       \/ SubsequentGet(p)
       \/ GetCopy(p)
       \/ GetCheck(p)
       \/ GetReturn(p)

SpecSets == InitSets /\ [][NextSets]_vars

\* C35: when two processes call set on the same slot concurrently, then
\* after both calls have returned the counter has grown by exactly two and
\* a subsequent get returns the name written by one of the two calls, not
\* an older name and not a mixture of the two.
C35_ConcurrentSetsBothCount ==
    /\ SetsReturned =>
          uds_names[TheSlot].aba_counter = EntryInitialized.aba_counter + 1 + Cardinality(Setters)
    /\ \A p \in DirProcs :
          dpc[p] = "get_done" =>
             \E k \in 2 .. Len(completed[TheSlot]) : dloc[p].result = completed[TheSlot][k]

----
(***************************************************************************)
(* shm_list of FreeBSD: sysctl reports the length of the list, a buffer of *)
(* 4/3 of that length is allocated, sysctl fills it with kinfo_file        *)
(* records, and the loop walks the records.  Offsets and lengths are in    *)
(* bytes; a path is modelled by the number of the name it holds, 0 for an  *)
(* empty path.                                                             *)
(***************************************************************************)
\* core::mem::align_of::<kinfo_file>()
KinfoAlignment == 2
\* largest kf_structsize of a record
MaxStructSize == 3
\* most records sysctl writes
MaxRecords == 2
\* largest length the first sysctl call reports
MaxListLen == 6

\* the closure align of shm_list
AlignUp(value, alignment) ==
    IF value % alignment = 0 THEN value ELSE (value + alignment) - (value % alignment)

\* the records of the named segments, as the kernel writes them
KinfoFiles == [kf_structsize : 1 .. MaxStructSize, kf_path : ShmNames]

\* what the bytes of memory that hold no record can look like as a record
ArbitraryKinfoFiles == [kf_structsize : 0 .. MaxStructSize, kf_path : {0} \cup ShmNames]

RecordLists == UNION {[1 .. n -> KinfoFiles] : n \in 0 .. MaxRecords}

\* the offset behind the first k records of the buffer
RECURSIVE OffsetBehind(_, _)
OffsetBehind(records, k) ==
    IF k = 0 THEN 0
    ELSE OffsetBehind(records, k - 1) + AlignUp(records[k].kf_structsize, KinfoAlignment)

\* &*(temp as *const kinfo_file): a record of the data if temp is inside
\* the written bytes, else whatever the memory behind the data holds
KinfoAt(walk) ==
    IF walk.temp < walk.written
    THEN {walk.records[CHOOSE k \in 1 .. Len(walk.records) :
                           OffsetBehind(walk.records, k - 1) = walk.temp]}
    ELSE ArbitraryKinfoFiles

\* len = len * 4 / 3; malloc(len); the second sysctl call.  malloc may
\* return null and sysctl fails if the list has outgrown the buffer; both
\* return the empty result.
ShmListFill ==
    /\ shm_walk.pc = "sized"
    /\ LET allocated == (shm_walk.len * 4) \div 3
       IN  \E records \in RecordLists, malloc_null \in BOOLEAN :
              LET written == OffsetBehind(records, Len(records))
              IN  shm_walk' =
                     IF malloc_null \/ written > allocated
                     THEN [shm_walk EXCEPT !.pc = "failed"]
                     ELSE [shm_walk EXCEPT !.pc = "walk", !.allocated = allocated,
                                           !.records = records, !.written = written]
    /\ UNCHANGED <<dirVars, shmVars, scope_guard, math_call, create_calls>>

\* one round of the loop: look at the record at temp, stop on
\* kf_structsize == 0 or kf_path[0] == 0, else push the name and advance.
\* A read behind the allocation may also end the process.
ShmListWalk ==
    /\ shm_walk.pc = "walk"
    /\ shm_walk.temp <= MaxListLen * 2
    /\ \/ \E kif \in KinfoAt(shm_walk) :
            shm_walk' =
               IF kif.kf_structsize = 0 \/ kif.kf_path = 0
               THEN [shm_walk EXCEPT !.pc = "done", !.read_end = shm_walk.temp + 1]
               ELSE [shm_walk EXCEPT
                        !.result = Append(@, kif.kf_path),
                        !.read_end = shm_walk.temp + 1,
                        !.temp = @ + AlignUp(kif.kf_structsize, KinfoAlignment)]
       \/ /\ shm_walk.temp >= shm_walk.allocated
          /\ shm_walk' = [shm_walk EXCEPT !.pc = "fault", !.read_end = shm_walk.temp + 1]
    /\ UNCHANGED <<dirVars, shmVars, scope_guard, math_call, create_calls>>

InitList ==
    /\ ShmUnused
    /\ DirUnused
    /\ scope_guard = NoGuard
    /\ math_call = NoMathCall
    /\ create_calls = <<>>
    /\ \E len \in 0 .. MaxListLen : shm_walk = [NoWalk EXCEPT !.pc = "sized", !.len = len]

NextList == ShmListFill \/ ShmListWalk

SpecList == InitList /\ [][NextList]_vars

\* C36: the record walk of shm_list on FreeBSD reads only records inside
\* the bytes the second sysctl call reported as written; it terminates for
\* every returned buffer, also one whose data is not followed by a record
\* with kf_structsize == 0 or an empty kf_path, and it returns exactly one
\* name per record of the data.
C36_WalkStaysInsideTheData ==
    /\ shm_walk.read_end <= shm_walk.written
    /\ shm_walk.pc # "fault"
    /\ shm_walk.pc = "walk" => Len(shm_walk.result) <= Len(shm_walk.records)
    /\ shm_walk.pc = "done" =>
          shm_walk.result = [k \in 1 .. Len(shm_walk.records) |-> shm_walk.records[k].kf_path]

----
(***************************************************************************)
(* Claims about the scope guard                                            *)
(***************************************************************************)

\* C26: ScopeGuardBuilder::create runs on_init exactly once, with the value
\* the builder was given; if on_init returns Ok, on_drop has not run while
\* the guard lives and has run exactly once after the guard was destroyed,
\* with the value as last written through the guard; if on_init returns
\* Err(e), create returns e and on_drop never runs.
C26_ScopeGuardCallbacks ==
    /\ [](LET g == scope_guard
          IN  /\ g.pc \in {"none", "built"} => g.init_calls = 0 /\ g.drop_calls = 0
              /\ g.pc \in {"guarding", "failed", "dropped"} =>
                    g.init_calls = 1 /\ g.result = g.on_init
              /\ g.pc = "guarding" => g.result = GuardOk /\ g.drop_calls = 0
              /\ g.pc = "failed" => ~g.result.ok /\ g.result.err \in GuardErrors /\ g.drop_calls = 0
              /\ g.pc = "dropped" =>
                    IF g.result = GuardOk
                    THEN g.drop_calls = 1 /\ g.drop_saw = g.value
                    ELSE g.drop_calls = 0 /\ g.drop_saw = 0)
    /\ [][/\ scope_guard'.init_calls # scope_guard.init_calls =>
               scope_guard'.init_saw = scope_guard.value
          /\ scope_guard'.drop_calls # scope_guard.drop_calls =>
               /\ scope_guard.pc = "guarding"
               /\ scope_guard'.pc = "dropped"]_vars

\* the guard was destroyed after its value had been changed through it:
\* on_init saw the first value, on_drop the last
C26_Witness ==
    /\ scope_guard.pc = "dropped"
    /\ scope_guard.drop_calls = 1
    /\ scope_guard.init_saw # scope_guard.drop_saw

----
(***************************************************************************)
(* Claims about math.rs                                                    *)
(***************************************************************************)

\* the largest value whose next multiple of the alignment fits the word
LargestAlignable(alignment) == WordLimit - alignment

\* what C28 says about a call align(v, a) that returned r
AlignedUp(v, a, r) == r >= v /\ r % a = 0 /\ r - v < a

\* C28 as stated: for every value v and every alignment a in
\* {1, 2, 4, .., 4096} align(v, a) >= v, align(v, a) % a = 0 and
\* align(v, a) - v < a.
C28_AlignRoundsUpEveryValue ==
    (/\ math_call.fn = "align"
     /\ math_call.pc = "returned"
     /\ math_call.alignment \in PowerOfTwoAlignments) =>
        AlignedUp(math_call.value, math_call.alignment, math_call.result)

\* C28, amended: for every alignment a in {1, 2, 4, .., 4096} and every
\* value v whose next multiple of a fits the word (v <= 2^64 - a), align
\* returns without overflow and align(v, a) >= v, align(v, a) % a = 0 and
\* align(v, a) - v < a; for every alignment, also one that is no power of
\* two, align returns v itself when v is a multiple of it
\* (align(25, 5) = 25), and align(30, 7) = 35.
C28_AlignRoundsUp ==
    /\ (/\ math_call.fn = "align"
        /\ math_call.pc # "called"
        /\ math_call.alignment \in PowerOfTwoAlignments
        /\ math_call.value <= LargestAlignable(math_call.alignment)) =>
           /\ math_call.pc = "returned"
           /\ AlignedUp(math_call.value, math_call.alignment, math_call.result)
    /\ (/\ math_call.fn = "align"
        /\ math_call.pc # "called"
        /\ math_call.value % math_call.alignment = 0) =>
           /\ math_call.pc = "returned"
           /\ math_call.result = math_call.value
    /\ align(25, 5) = 25
    /\ align(30, 7) = 35

\* align returned for the largest alignment and a value that is not a
\* multiple of it
C28_Witness ==
    /\ math_call.fn = "align"
    /\ math_call.pc = "returned"
    /\ math_call.alignment = 2 ^ MaxAlignmentLog2
    /\ math_call.value % math_call.alignment = 1
    /\ math_call.result = math_call.alignment

\* r is a power of two
IsPowerOfTwo(r) == \E k \in 0 .. WordBits - 1 : r = 2 ^ k

\* r is the smallest power of two that is >= v
SmallestPowerOfTwoFrom(v, r) ==
    /\ IsPowerOfTwo(r)
    /\ r >= v
    /\ \A q \in Words : (IsPowerOfTwo(q) /\ q >= v) => r <= q

\* C29: for every v with 1 <= v <= 2^63 (half of the word's range)
\* round_to_pow2(v) returns without overflow the smallest power of two that
\* is >= v; it is the identity on powers of two and idempotent.
C29_RoundToPow2IsNextPowerOfTwo ==
    (/\ math_call.fn = "round_to_pow2"
     /\ math_call.pc # "called"
     /\ 1 <= math_call.value
     /\ math_call.value <= 2 ^ (WordBits - 1)) =>
        /\ math_call.pc = "returned"
        /\ SmallestPowerOfTwoFrom(math_call.value, math_call.result)
        /\ IsPowerOfTwo(math_call.value) => math_call.result = math_call.value
        /\ round_to_pow2(math_call.result) = math_call.result

\* round_to_pow2 returned the largest power of two of the word for a value
\* that is not a power of two
C29_Witness ==
    /\ math_call.fn = "round_to_pow2"
    /\ math_call.pc = "returned"
    /\ math_call.value = 2 ^ (WordBits - 2) + 1
    /\ math_call.result = 2 ^ (WordBits - 1)

====
